---------------------------- MODULE Spec2Model ----------------------------
(***************************************************************************)
(* Tweneigh: a set of tutorial notebooks over torch, gym and               *)
(* stable_baselines3.  A notebook is a sequence of code cells executed in  *)
(* document order by one kernel.  The model is an interpreter of the       *)
(* notebooks' statements: every notebook is translated into a sequence of  *)
(* instructions (one per statement, or per run of statements that only     *)
(* read and bind names), and the kernel executes them one by one.          *)
(*                                                                         *)
(* What the kernel tracks of the wrapped libraries is their documented     *)
(* interface only: which names are bound, the episode state of every       *)
(* environment (reset / step / done), the training state of every agent    *)
(* (learn / predict / save / load), the accumulated gradient of every      *)
(* parameter set (backward / zero_grad / step), the autograd graph of a    *)
(* result tensor (freed by backward unless retain_graph) and the files of  *)
(* the working directory.                                                  *)
(***************************************************************************)
EXTENDS Integers, Sequences, FiniteSets, TLC

\* Bounds of the model (not program constants).
\* A `for` loop of N iterations runs min(N, MaxLoop) iterations.
MaxLoop == 2
\* An episode ends (done = True) after at most MaxEpisodeSteps steps.
MaxEpisodeSteps == 2

VARIABLES
    running,    \* the notebooks being executed in the working directory: name -> program
    kernel,     \* kernel[n]: the state of notebook n's kernel
    files,      \* the checkpoints of the working directory: path -> [writer, trained]
    turn,       \* the notebook that is in the middle of a cell, or NoOne
    call        \* one application of a reward function: [fn, state, action, next_state, done, result]

vars == <<running, kernel, files, turn, call>>

NoOne == "-"

Min(a, b) == IF a < b THEN a ELSE b

Put(f, k, v) == [x \in (DOMAIN f) \cup {k} |-> IF x = k THEN v ELSE f[x]]

-----------------------------------------------------------------------------
(***************************************************************************)
(* Instructions.  cell is the source line at which the code cell starts;   *)
(* reads are the global (or function-local, written "f:x") names the       *)
(* statement reads, binds the names it binds.                              *)
(***************************************************************************)
Ins(op, r, b) ==
    [cell |-> 0, op |-> op, reads |-> r, binds |-> b, obj |-> "", arg |-> "",
     n |-> 0, cond |-> "always", pkgs |-> {}, locals |-> {}, g |-> <<>>, retain |-> FALSE]

\* statements that only read and bind names (assignments, prints, def, class)
St(r, b) == Ins("stmt", r, b)
\* import pkg / from pkg import ...
Import(pkg, b) == [Ins("import", {}, b) EXCEPT !.pkgs = {pkg}]
\* !pip install pkgs
Pip(pkgs) == [Ins("pip", {}, {}) EXCEPT !.pkgs = pkgs]
\* a cell that does not compile
SyntaxErr == Ins("syntaxerror", {}, {})

\* e = gym.make(...)
Make(r, e) == [Ins("make", r, {e}) EXCEPT !.obj = e]
\* e = make_vec_env(...): a vectorized environment
MakeVec(r, e) == [Ins("make", r, {e}) EXCEPT !.obj = e, !.arg = "vec"]
\* e = DummyVecEnv([lambda: e]): the same environment, vectorized
Wrap(w, e) == [Ins("wrap", {w, e}, {e}) EXCEPT !.obj = e]
Reset(e, b) == [Ins("reset", {e}, b) EXCEPT !.obj = e]
\* if c: e.reset()
ResetIf(c, e, b) == [Ins("reset", {e, c}, b) EXCEPT !.obj = e, !.cond = c]
Sample(e, b) == [Ins("sample", {e}, b) EXCEPT !.obj = e]
\* ..., done, ... = e.step(action): d is the name done is bound to
Step(e, r, b, d) == [Ins("step", {e} \cup r, b \cup {d}) EXCEPT !.obj = e, !.arg = d]
Render(e, r, b) == [Ins("render", {e} \cup r, b) EXCEPT !.obj = e]
Close(e) == [Ins("close", {e}, {}) EXCEPT !.obj = e]
\* done = False
SetDone(d) == [Ins("setdone", {}, {d}) EXCEPT !.arg = d]

\* a = PPO(...), a.learn(...), a.predict(...), a.save(path), a = PPO.load(path)
Agent(r, a) == [Ins("agent", r, {a}) EXCEPT !.obj = a]
Learn(a, b) == [Ins("learn", {a}, b) EXCEPT !.obj = a]
Predict(a, r, b) == [Ins("predict", {a} \cup r, b) EXCEPT !.obj = a]
Save(a, path) == [Ins("save", {a}, {}) EXCEPT !.obj = a, !.arg = path]
Load(r, a, path) == [Ins("load", r, {a}) EXCEPT !.obj = a, !.arg = path]

\* m = nn.Linear(...) or an nn.Module subclass: fresh parameters
Module(r, m) == [Ins("module", r, {m}) EXCEPT !.obj = m]
\* x = torch.tensor(..., requires_grad=True): a fresh leaf tensor
Leaf(r, x) == [Ins("leaf", r, {x}) EXCEPT !.obj = x]
\* t = f(leaves): the forward pass builds the graph of t; g[l] is what one
\* backward pass through it adds to l.grad
Forward(r, t, g) == [Ins("forward", r, {t}) EXCEPT !.obj = t, !.g = g]
\* t.backward(retain_graph=retain)
Backward(t, retain) == [Ins("backward", {t}, {}) EXCEPT !.obj = t, !.retain = retain]
\* optimizer.zero_grad() / optimizer.step(), the optimizer o holding m's parameters
ZeroGrad(o, m) == [Ins("zero_grad", {o}, {}) EXCEPT !.obj = m]
OptStep(o, m) == [Ins("opt_step", {o}, {}) EXCEPT !.obj = m]
\* x.grad.zero_()
Zero_(x) == [Ins("zero_grad", {x}, {}) EXCEPT !.obj = x]
\* torch.save(m.state_dict(), path) / torch.load(path)
TSave(r, m, path) == [Ins("tsave", r \cup {m}, {}) EXCEPT !.obj = m, !.arg = path]
TLoad(r, m, path) == [Ins("tload", r \cup {m}, {}) EXCEPT !.obj = m, !.arg = path]
\* DataLoader(..., num_workers=w)
Loader(r, b, w) == [Ins("loader", r, b) EXCEPT !.n = w]

\* l = []
NewList(l) == [Ins("newlist", {}, {l}) EXCEPT !.obj = l]
\* l.append(x)
ListAppend(l, x) == [Ins("append", {l, x}, {}) EXCEPT !.obj = l]

\* for v in range(n): ... End
For(n, r, b) == [Ins("for", r, b) EXCEPT !.n = n]
\* while not d: ... End      (d = "" for while True)
While(d) == [Ins("while", IF d = "" THEN {} ELSE {d}, {}) EXCEPT !.arg = d]
\* if d: break
BreakIf(d) == [Ins("break", {d}, {}) EXCEPT !.arg = d]
End == Ins("end", {}, {})
\* f(args): the body of f inlined between Call and Ret; locals are f's local
\* names ("f:x"), dropped when f returns; b is what the call's result is bound to
Call(f, r, locals) == [Ins("call", {f} \cup r, {}) EXCEPT !.obj = f, !.locals = locals]
Ret(f, b) == [Ins("ret", {}, b) EXCEPT !.obj = f]
Invoke(f, r, body, locals, b) == <<Call(f, r, locals)>> \o body \o <<Ret(f, b)>>

\* the statements of the code cell that starts at source line `line`
Cell(line, seq) == [i \in 1..Len(seq) |-> [seq[i] EXCEPT !.cell = line]]

-----------------------------------------------------------------------------
(***************************************************************************)
(* The gym notebooks.                                                      *)
(***************************************************************************)

\* unnamed/part_004 (episodes): def run_episode(env)
run_episode_locals ==
    {"run_episode:state", "run_episode:done", "run_episode:total_reward",
     "run_episode:action", "run_episode:reward", "run_episode:_"}

\* a variant that resets the environment in every iteration of the loop
run_episode_reset_in_loop(env) ==
    << SetDone("run_episode:done"),
       St({}, {"run_episode:total_reward"}),
       While("run_episode:done"),
         Reset(env, {"run_episode:state"}),
         Sample(env, {"run_episode:action"}),
         Step(env, {"run_episode:action"},
              {"run_episode:state", "run_episode:reward", "run_episode:_"},
              "run_episode:done"),
         St({"run_episode:total_reward", "run_episode:reward"}, {"run_episode:total_reward"}),
       End >>

run_episode(env) ==
    << Reset(env, {"run_episode:state"}),
       SetDone("run_episode:done"),
       St({}, {"run_episode:total_reward"}),
       While("run_episode:done"),
         Sample(env, {"run_episode:action"}),
         Step(env, {"run_episode:action"},
              {"run_episode:state", "run_episode:reward", "run_episode:_"},
              "run_episode:done"),
         St({"run_episode:total_reward", "run_episode:reward"}, {"run_episode:total_reward"}),
       End >>

run_multiple_episodes_locals ==
    {"run_multiple_episodes:rewards", "run_multiple_episodes:i",
     "run_multiple_episodes:reward"}

\* the notebook calls it with num_episodes = 100
run_multiple_episodes(env, num_episodes) ==
    << St({}, {"run_multiple_episodes:rewards"}),
       For(100, {num_episodes}, {"run_multiple_episodes:i"}) >>
    \o Invoke("run_episode", {env}, run_episode(env), run_episode_locals,
              {"run_multiple_episodes:reward"})
    \o << St({"run_multiple_episodes:rewards", "run_multiple_episodes:reward"}, {}),
          End >>

Episodes ==
    Cell(15, << Import("gym", {"gym"}),
                Make({"gym"}, "env"),
                St({"env"}, {}) >>)
    \o Cell(44, << Import("random", {"random"}),
                   St({}, {"run_episode"}) >>
                \o Invoke("run_episode", {"env"}, run_episode("env"), run_episode_locals,
                          {"episode_reward"})
                \o << St({"episode_reward"}, {}) >>)
    \o Cell(77, << St({}, {"run_multiple_episodes"}),
                   St({}, {"num_episodes"}) >>
                \o Invoke("run_multiple_episodes", {"env", "num_episodes"},
                          run_multiple_episodes("env", "num_episodes"),
                          run_multiple_episodes_locals, {"rewards"})
                \o << St({"rewards", "num_episodes"}, {"average_reward"}),
                      St({"num_episodes", "average_reward"}, {}) >>)

\* unnamed/part_003, second notebook (rendering): the 100-step loop
\* a variant that does not look at done
render_loop_without_reset ==
    << For(100, {}, {"_"}),
         Render("env", {}, {}),
         Sample("env", {"action"}),
         Step("env", {"action"}, {"observation", "reward", "info"}, "done"),
       End >>

render_loop ==
    << For(100, {}, {"_"}),
         Render("env", {}, {}),
         Sample("env", {"action"}),
         Step("env", {"action"}, {"observation", "reward", "info"}, "done"),
         ResetIf("done", "env", {}),
       End >>

Rendering ==
    Cell(192, << Pip({"gym"}) >>)
    \o Cell(215, << Import("gym", {"gym"}) >>)
    \o Cell(238, << Make({"gym"}, "env") >>)
    \o Cell(261, << Reset("env", {}) >>)
    \o Cell(298, << Render("env", {}, {}) >>)
    \o Cell(314, << Render("env", {}, {"rendered_image"}),
                    St({"rendered_image"}, {}) >>)
    \o Cell(345, render_loop)
    \o Cell(373, << Close("env") >>)

\* unnamed/part_008 (spaces): the random agent
random_agent_episode ==
    << Reset("env", {"observation"}),
       St({}, {"total_reward"}),
       While(""),
         Sample("env", {"action"}),
         Step("env", {"action"}, {"observation", "reward", "info"}, "done"),
         St({"total_reward", "reward"}, {"total_reward"}),
         BreakIf("done"),
       End >>

Spaces ==
    Cell(60, << Pip({"gym"}), Import("gym", {"gym"}) >>)
    \o Cell(77, << Make({"gym"}, "env"),
                   St({"env"}, {}) >>)
    \o Cell(110, << Sample("env", {"action"}),
                    St({"env"}, {"observation"}),
                    St({"action", "observation"}, {}) >>)
    \o Cell(142, << St({}, {"num_episodes"}),
                    For(10, {"num_episodes"}, {"episode"}) >>
                 \o random_agent_episode
                 \o << St({"episode", "total_reward"}, {}),
                       End >>)
    \o Cell(187, << St({}, {"num_episodes", "total_rewards"}),
                    For(10, {"num_episodes"}, {"episode"}) >>
                 \o random_agent_episode
                 \o << St({"total_rewards", "total_reward"}, {}),
                       End,
                       St({"total_rewards", "num_episodes"}, {"avg_reward"}),
                       St({"num_episodes", "avg_reward"}, {}) >>)

\* Gym-Environments.ipynb: a variant of the random-agent loop that appends
\* the total of an episode after every step
random_agent_loop_appending_early ==
    << For(100, {"num_episodes"}, {"episode"}),
         Reset("env", {"state"}),
         SetDone("done"),
         St({}, {"episode_reward"}),
         While("done"),
           Sample("env", {"action"}),
           Step("env", {"action"}, {"state", "reward", "_"}, "done"),
           St({"episode_reward", "reward"}, {"episode_reward"}),
           ListAppend("episode_rewards", "episode_reward"),
         End,
       End >>

\* the random-agent loop
random_agent_loop ==
    << For(100, {"num_episodes"}, {"episode"}),
         Reset("env", {"state"}),
         SetDone("done"),
         St({}, {"episode_reward"}),
         While("done"),
           Sample("env", {"action"}),
           Step("env", {"action"}, {"state", "reward", "_"}, "done"),
           St({"episode_reward", "reward"}, {"episode_reward"}),
         End,
         ListAppend("episode_rewards", "episode_reward"),
       End >>

Gym_Environments ==
    Cell(41, << Pip({"gym"}) >>)
    \o Cell(64, << Import("gym", {"gym"}),
                   Make({"gym"}, "env"),
                   Reset("env", {"initial_state"}),
                   St({"initial_state"}, {}) >>)
    \o Cell(94, << St({"env"}, {}) >>)
    \o Cell(119, << Import("random", {"random"}),
                    St({}, {"num_episodes"}),
                    NewList("episode_rewards") >>
                 \o random_agent_loop
                 \o << St({"episode_rewards", "num_episodes"}, {"average_reward"}),
                       St({"average_reward"}, {}) >>)
    \o Cell(182, << Import("torch", {"torch"}),
                    Import("torch", {"nn"}),
                    St({"nn"}, {"SimpleModel"}),
                    Module({"SimpleModel", "env"}, "model") >>)
    \o Cell(211, << TSave({"torch"}, "model", "simple_model.pth") >>)
    \o Cell(228, << Module({"SimpleModel", "env"}, "loaded_model"),
                    TLoad({"torch"}, "loaded_model", "simple_model.pth"),
                    St({"loaded_model"}, {}) >>)

\* Gym-Reward_Functions.ipynb: the REINFORCE loop
reinforce_loop ==
    << For(1000, {"num_episodes"}, {"episode"}),
         Reset("env", {"state"}),
         St({}, {"rewards", "log_probs"}),
         SetDone("done"),
         While("done"),
           St({"torch", "state"}, {"state_tensor"}),
           St({"model", "state_tensor"}, {"action_probs"}),
           St({"torch", "action_probs"}, {"action"}),
           St({"torch", "action_probs", "action"}, {"log_prob"}),
           Step("env", {"action"}, {"next_state", "_"}, "done"),
           St({"basic_reward", "state", "action", "next_state", "done"}, {"reward"}),
           St({"rewards", "reward", "log_probs", "log_prob"}, {}),
           St({"next_state"}, {"state"}),
         End,
         St({}, {"R", "policy_loss"}),
         St({"rewards", "log_probs", "gamma", "R", "policy_loss"}, {"r", "log_prob", "R"}),
         Forward({"torch", "policy_loss"}, "policy_loss", [model |-> 1]),
         ZeroGrad("optimizer", "model"),
         Backward("policy_loss", FALSE),
         OptStep("optimizer", "model"),
         St({"episode", "policy_loss"}, {}),
       End >>

Gym_Reward_Functions ==
    Cell(13, << Import("gym", {"gym"}),
                Import("torch", {"torch"}),
                Import("torch", {"nn"}),
                Import("torch", {"optim"}),
                Import("torch", {"Variable"}) >>)
    \o Cell(29, << Make({"gym"}, "env"),
                   St({"env"}, {}) >>)
    \o Cell(45, << St({"nn"}, {"Net"}),
                   St({"env"}, {"input_size"}),
                   St({}, {"hidden_size"}),
                   St({"env"}, {"output_size"}),
                   Module({"Net", "input_size", "hidden_size", "output_size"}, "model"),
                   St({"model"}, {}) >>)
    \o Cell(61, << St({}, {"basic_reward"}) >>)
    \o Cell(77, << St({}, {"angle_reward"}) >>)
    \o Cell(93, << St({}, {"angle_position_reward"}) >>)
    \o Cell(116, << St({}, {"num_episodes", "learning_rate", "gamma"}),
                    St({"optim", "model", "learning_rate"}, {"optimizer"}) >>
                 \o reinforce_loop)
    \o Cell(132, << SyntaxErr >>)

-----------------------------------------------------------------------------
(***************************************************************************)
(* The stable_baselines3 notebooks.                                        *)
(***************************************************************************)

\* Algorithms-A2C.ipynb: def evaluate(model, num_episodes=100)
A2C_evaluate_locals ==
    {"evaluate:env", "evaluate:rewards", "evaluate:i", "evaluate:obs",
     "evaluate:episode_reward", "evaluate:action", "evaluate:_",
     "evaluate:reward", "evaluate:done"}

A2C_evaluate(model) ==
    << Make({"gym"}, "evaluate:env"),
       St({}, {"evaluate:rewards"}),
       For(100, {}, {"evaluate:i"}),
         Reset("evaluate:env", {"evaluate:obs"}),
         St({}, {"evaluate:episode_reward"}),
         While(""),
           Predict(model, {"evaluate:obs"}, {"evaluate:action", "evaluate:_"}),
           Step("evaluate:env", {"evaluate:action"},
                {"evaluate:obs", "evaluate:reward", "evaluate:_"}, "evaluate:done"),
           St({"evaluate:episode_reward", "evaluate:reward"}, {"evaluate:episode_reward"}),
           BreakIf("evaluate:done"),
         End,
         St({"evaluate:rewards", "evaluate:episode_reward"}, {}),
       End,
       Close("evaluate:env"),
       St({"np", "evaluate:rewards"}, {}) >>

Algorithms_A2C ==
    Cell(27, << Import("gym", {"gym"}),
                Make({"gym"}, "env") >>)
    \o Cell(47, << Pip({"stable-baselines3", "gym"}) >>)
    \o Cell(67, << Import("stable_baselines3", {"A2C"}) >>)
    \o Cell(93, << Agent({"A2C", "env"}, "model") >>)
    \o Cell(111, << Learn("model", {"trained_model"}) >>)
    \o Cell(129, << Save("trained_model", "a2c_cartpole"),
                    Load({"A2C"}, "loaded_model", "a2c_cartpole") >>)
    \o Cell(148, << Import("numpy", {"np"}),
                    St({}, {"evaluate"}) >>
                 \o Invoke("evaluate", {"loaded_model"}, A2C_evaluate("loaded_model"),
                           A2C_evaluate_locals, {"mean_reward", "std_reward"})
                 \o << St({"mean_reward", "std_reward"}, {}) >>)

\* Algorithms-DDPG.ipynb: the test loop
DDPG_test_loop ==
    << Reset("env", {"obs"}),
       For(1000, {}, {"_"}),
         Predict("agent", {"obs"}, {"action", "_states"}),
         Step("env", {"action"}, {"obs", "reward", "info"}, "done"),
         Render("env", {}, {}),
       End,
       Close("env") >>

Algorithms_DDPG ==
    Cell(24, << Import("torch", {"torch"}),
                Import("gym", {"gym"}),
                Import("stable_baselines3",
                       {"DDPG", "NormalActionNoise", "Monitor", "CheckpointCallback",
                        "EvalCallback", "make_vec_env"}) >>)
    \o Cell(48, << St({}, {"env_id"}),
                   MakeVec({"make_vec_env", "env_id"}, "env") >>)
    \o Cell(67, << St({"NormalActionNoise"}, {"action_noise"}) >>)
    \o Cell(85, << Agent({"DDPG", "env", "action_noise"}, "agent") >>)
    \o Cell(103, << Learn("agent", {}) >>)
    \o Cell(121, << Save("agent", "ddpg_pendulum") >> \o DDPG_test_loop)

\* Algorithms-SAC.ipynb, first notebook (SAC)
Algorithms_SAC ==
    Cell(27, << Pip({"stable-baselines3", "gym"}) >>)
    \o Cell(44, << Import("gym", {"gym"}),
                   Make({"gym"}, "env") >>)
    \o Cell(63, << Import("stable_baselines3", {"SAC", "DummyVecEnv"}),
                   Wrap("DummyVecEnv", "env"),
                   Agent({"SAC", "env"}, "model"),
                   St({}, {"training_steps"}) >>)
    \o Cell(84, << Learn("model", {}) >>)
    \o Cell(101, << St({}, {"num_episodes"}),
                    Make({"gym"}, "evaluation_env"),
                    For(5, {"num_episodes"}, {"episode"}),
                      Reset("evaluation_env", {"obs"}),
                      SetDone("done"),
                      St({}, {"episode_reward"}),
                      While("done"),
                        Predict("model", {"obs"}, {"action", "_"}),
                        Step("evaluation_env", {"action"}, {"obs", "reward", "info"}, "done"),
                        St({"episode_reward", "reward"}, {"episode_reward"}),
                        Render("evaluation_env", {}, {}),
                      End,
                      St({"episode", "episode_reward"}, {}),
                    End,
                    Close("evaluation_env") >>)

\* Algorithms-TD3.ipynb: def evaluate(agent, env, num_episodes=5)
TD3_evaluate_locals ==
    {"evaluate:episode", "evaluate:obs", "evaluate:done", "evaluate:episode_reward",
     "evaluate:action", "evaluate:_", "evaluate:reward", "evaluate:info"}

TD3_evaluate(agent, env) ==
    << For(5, {}, {"evaluate:episode"}),
         Reset(env, {"evaluate:obs"}),
         SetDone("evaluate:done"),
         St({}, {"evaluate:episode_reward"}),
         While("evaluate:done"),
           Predict(agent, {"evaluate:obs"}, {"evaluate:action", "evaluate:_"}),
           Step(env, {"evaluate:action"},
                {"evaluate:obs", "evaluate:reward", "evaluate:info"}, "evaluate:done"),
           St({"evaluate:episode_reward", "evaluate:reward"}, {"evaluate:episode_reward"}),
           Render(env, {}, {}),
           St({"time"}, {}),
         End,
         St({"evaluate:episode", "evaluate:episode_reward"}, {}),
       End >>

Algorithms_TD3 ==
    Cell(33, << Pip({"stable-baselines3", "gym", "pytorch"}) >>)
    \o Cell(51, << Import("gym", {"gym"}),
                   Import("stable_baselines3", {"TD3", "DummyVecEnv"}),
                   Make({"gym"}, "env"),
                   Wrap("DummyVecEnv", "env") >>)
    \o Cell(77, << Agent({"TD3", "env"}, "agent"),
                   Learn("agent", {}) >>)
    \o Cell(99, << Import("time", {"time"}),
                   St({}, {"evaluate"}) >>
                \o Invoke("evaluate", {"agent", "env"}, TD3_evaluate("agent", "env"),
                          TD3_evaluate_locals, {}))
    \o Cell(131, << Close("env") >>)

\* SB3-Environments.ipynb
SB3_Environments ==
    Cell(24, << Pip({"stable-baselines3", "gym"}) >>)
    \o Cell(42, << Import("gym", {"gym"}),
                   Make({"gym"}, "env"),
                   St({"env"}, {}) >>)
    \o Cell(63, << Reset("env", {"observation"}),
                   St({"observation"}, {}),
                   Sample("env", {"action"}),
                   Step("env", {"action"}, {"observation", "reward", "info"}, "done"),
                   St({"observation", "reward", "done", "info"}, {}) >>)
    \o Cell(89, << Import("gym", {"spaces"}),
                   St({"gym"}, {"CustomEnvironment"}) >>)
    \o Cell(125, << Import("stable_baselines3", {"PPO"}),
                    Agent({"PPO", "env"}, "model"),
                    Learn("model", {}) >>)
    \o Cell(146, << St({}, {"num_episodes"}),
                    For(5, {"num_episodes"}, {"episode"}),
                      Reset("env", {"obs"}),
                      SetDone("done"),
                      St({}, {"episode_reward"}),
                      While("done"),
                        Predict("model", {"obs"}, {"action", "_states"}),
                        Step("env", {"action"}, {"obs", "reward", "info"}, "done"),
                        St({"episode_reward", "reward"}, {"episode_reward"}),
                      End,
                      St({"episode", "episode_reward"}, {}),
                    End >>)

\* SB3-Model_Training_and_Eval.ipynb: def evaluate(model, num_episodes=100)
MTE_evaluate_locals ==
    {"evaluate:episode_rewards", "evaluate:_", "evaluate:obs", "evaluate:done",
     "evaluate:episode_reward", "evaluate:action", "evaluate:reward"}

MTE_evaluate(model) ==
    << St({}, {"evaluate:episode_rewards"}),
       For(100, {}, {"evaluate:_"}),
         Reset("env", {"evaluate:obs"}),
         SetDone("evaluate:done"),
         St({}, {"evaluate:episode_reward"}),
         While("evaluate:done"),
           Predict(model, {"evaluate:obs"}, {"evaluate:action", "evaluate:_"}),
           Step("env", {"evaluate:action"},
                {"evaluate:obs", "evaluate:reward", "evaluate:_"}, "evaluate:done"),
           St({"evaluate:episode_reward", "evaluate:reward"}, {"evaluate:episode_reward"}),
         End,
         St({"evaluate:episode_rewards", "evaluate:episode_reward"}, {}),
       End,
       St({"np", "evaluate:episode_rewards"}, {}) >>

\* def visualize_agent(model, num_episodes=1)
visualize_agent_locals ==
    {"visualize_agent:_", "visualize_agent:obs", "visualize_agent:done",
     "visualize_agent:action"}

visualize_agent(model) ==
    << For(1, {}, {"visualize_agent:_"}),
         Reset("env", {"visualize_agent:obs"}),
         SetDone("visualize_agent:done"),
         While("visualize_agent:done"),
           Render("env", {"plt"}, {}),
           St({"display", "plt"}, {}),
           Predict(model, {"visualize_agent:obs"},
                   {"visualize_agent:action", "visualize_agent:_"}),
           Step("env", {"visualize_agent:action"},
                {"visualize_agent:obs", "visualize_agent:_"}, "visualize_agent:done"),
         End,
         Close("env"),
       End >>

\* a variant that saves in one cell and reloads in the next
MTE_checkpoint_in_two_cells ==
    Cell(139, << Save("model", "ppo_cartpole") >>)
    \o Cell(140, << Load({"PPO"}, "loaded_model", "ppo_cartpole") >>)

\* the cell that saves and reloads the checkpoint
MTE_checkpoint ==
    Cell(139, << Save("model", "ppo_cartpole"),
                 Load({"PPO"}, "loaded_model", "ppo_cartpole") >>)

SB3_Model_Training_and_Eval ==
    Cell(33, << Pip({"stable-baselines3"}) >>)
    \o Cell(51, << Import("gym", {"gym"}),
                   Import("numpy", {"np"}),
                   Import("stable_baselines3", {"PPO"}) >>)
    \o Cell(71, << Make({"gym"}, "env") >>)
    \o Cell(88, << Agent({"PPO", "env"}, "model"),
                   Learn("model", {}) >>)
    \o Cell(107, << St({}, {"evaluate"}) >>
                 \o Invoke("evaluate", {"model"}, MTE_evaluate("model"),
                           MTE_evaluate_locals, {"mean_reward", "std_reward"})
                 \o << St({"mean_reward", "std_reward"}, {}) >>)
    \o MTE_checkpoint
    \o Cell(158, << Import("IPython", {"display"}),
                    Import("matplotlib", {"plt"}),
                    St({}, {"visualize_agent"}) >>
                 \o Invoke("visualize_agent", {"loaded_model"},
                           visualize_agent("loaded_model"), visualize_agent_locals, {}))

\* SB3-Overview.ipynb: a variant that creates the agent and does not train it
SB3_Overview_agent_untrained ==
    Cell(83, << Agent({"PPO", "env"}, "agent") >>)
    \o Cell(102, << St({"agent"}, {}) >>)

\* the agent is created, then trained
SB3_Overview_agent ==
    Cell(83, << Agent({"PPO", "env"}, "agent") >>)
    \o Cell(102, << Learn("agent", {}) >>)

SB3_Overview ==
    Cell(17, << Pip({"stable-baselines3"}) >>)
    \o Cell(44, << Import("gym", {"gym"}),
                   Import("stable_baselines3", {"PPO"}) >>)
    \o Cell(64, << Make({"gym"}, "env") >>)
    \o SB3_Overview_agent
    \o Cell(121, << For(10, {}, {"episode"}),
                      Reset("env", {"obs"}),
                      SetDone("done"),
                      St({}, {"episode_reward"}),
                      While("done"),
                        Predict("agent", {"obs"}, {"action", "_"}),
                        Step("env", {"action"}, {"obs", "reward", "_"}, "done"),
                        St({"episode_reward", "reward"}, {"episode_reward"}),
                      End,
                      St({"episode", "episode_reward"}, {}),
                    End >>)

\* unnamed/part_005 (PPO): the cell that saves and reloads the checkpoint
PPO_checkpoint ==
    Cell(117, << Save("model", "ppo_cartpole"),
                 Load({"PPO"}, "model", "ppo_cartpole") >>)

PPO ==
    Cell(27, << Import("gym", {"gym"}),
                Import("stable_baselines3", {"PPO", "DummyVecEnv", "evaluate_policy"}) >>)
    \o Cell(49, << Make({"gym"}, "env"),
                   Wrap("DummyVecEnv", "env") >>)
    \o Cell(78, << Agent({"PPO", "env"}, "model") >>)
    \o Cell(99, << Learn("model", {}) >>)
    \o PPO_checkpoint
    \o Cell(136, << Predict("model", {"evaluate_policy", "env"}, {"mean_reward", "std_reward"}),
                    St({"mean_reward", "std_reward"}, {}) >>)
    \o Cell(155, << For(3, {}, {"i"}),
                      Reset("env", {"obs"}),
                      SetDone("done"),
                      While("done"),
                        Predict("model", {"obs"}, {"action", "_"}),
                        Step("env", {"action"}, {"obs", "_"}, "done"),
                        Render("env", {}, {}),
                      End,
                    End,
                    Close("env") >>)

-----------------------------------------------------------------------------
(***************************************************************************)
(* The torch notebooks.                                                    *)
(***************************************************************************)

\* Algorithms-SAC.ipynb, second notebook (negative log likelihood loss):
\* def train(model, device, train_loader, loss_function, optimizer, epoch)
NLL_train_locals ==
    {"train:batch_idx", "train:data", "train:target", "train:output", "train:loss"}

\* 60000 training images in batches of 64: 938 batches
NLL_train(model, device, train_loader, loss_function, optimizer, epoch) ==
    << St({model}, {}),
       For(938, {train_loader}, {"train:batch_idx", "train:data", "train:target"}),
         St({"train:data", "train:target", device}, {"train:data", "train:target"}),
         ZeroGrad(optimizer, model),
         St({model, "train:data"}, {"train:output"}),
         Forward({loss_function, "train:output", "train:target"}, "train:loss",
                 model :> 1),
         Backward("train:loss", FALSE),
         OptStep(optimizer, model),
         St({"train:batch_idx", epoch, "train:data", train_loader, "train:loss"}, {}),
       End >>

Loss_Functions_NLL ==
    Cell(188, << Import("torch", {"torch"}),
                 Import("torch", {"nn"}),
                 Import("torch", {"optim"}),
                 Import("torchvision", {"datasets", "transforms"}),
                 St({"nn"}, {"SimpleNet"}),
                 Module({"SimpleNet"}, "model"),
                 St({"model"}, {}) >>)
    \o Cell(227, << St({"nn"}, {"loss_function"}),
                    St({"optim", "model"}, {"optimizer"}),
                    St({"transforms"}, {"transform"}),
                    Loader({"torch", "datasets", "transform"}, {"train_loader"}, 0),
                    Loader({"torch", "datasets", "transform"}, {"test_loader"}, 0) >>)
    \o Cell(251, << St({}, {"train"}),
                    St({"torch"}, {"device"}),
                    St({"model", "device"}, {}),
                    For(5, {}, {"epoch"}) >>
                 \o Invoke("train",
                           {"model", "device", "train_loader", "loss_function",
                            "optimizer", "epoch"},
                           NLL_train("model", "device", "train_loader", "loss_function",
                                     "optimizer", "epoch"),
                           NLL_train_locals, {})
                 \o << End >>)
    \o Cell(285, << SyntaxErr >>)

\* Loss_Functions-Binary_Cross-Entropy.ipynb
Loss_Functions_Binary_Cross_Entropy ==
    Cell(47, << Import("torch", {"torch"}),
                Import("torch", {"nn"}),
                St({"torch"}, {"y"}),
                St({"torch"}, {"y_pred"}),
                St({"nn"}, {"criterion"}),
                St({"criterion", "y_pred", "y"}, {"loss"}),
                St({"loss"}, {}) >>)
    \o Cell(83, << St({"nn"}, {"criterion_sum"}),
                   St({"criterion_sum", "y_pred", "y"}, {"loss_sum"}),
                   St({"loss_sum"}, {}),
                   St({"nn"}, {"criterion_none"}),
                   St({"criterion_none", "y_pred", "y"}, {"loss_none"}),
                   St({"loss_none"}, {}) >>)
    \o Cell(109, << Import("torch", {"optim"}),
                    St({"torch"}, {"X"}),
                    St({"X"}, {"y"}),
                    St({"nn"}, {"SimpleClassifier"}),
                    Module({"SimpleClassifier"}, "model"),
                    St({"nn"}, {"criterion"}),
                    St({"optim", "model"}, {"optimizer"}),
                    For(100, {}, {"epoch"}),
                      ZeroGrad("optimizer", "model"),
                      St({"model", "X"}, {"y_pred"}),
                      Forward({"criterion", "y_pred", "y"}, "loss", [model |-> 1]),
                      Backward("loss", FALSE),
                      OptStep("optimizer", "model"),
                      St({"epoch", "loss"}, {}),
                    End >>)
    \o Cell(157, << TSave({"torch"}, "model", "simple_classifier.pth"),
                    Module({"SimpleClassifier"}, "loaded_model"),
                    TLoad({"torch"}, "loaded_model", "simple_classifier.pth") >>)
    \o Cell(180, << St({"torch"}, {"X_val"}),
                    St({"X_val"}, {"y_val"}),
                    St({"loaded_model", "X_val"}, {"y_val_pred"}),
                    St({"criterion", "y_val_pred", "y_val"}, {"val_loss"}),
                    St({"val_loss"}, {}),
                    St({"y_val_pred"}, {"y_val_pred_class"}),
                    St({"y_val_pred_class", "y_val"}, {"accuracy"}),
                    St({"accuracy"}, {}) >>)
    \o Cell(226, << St({"torch"}, {"X"}),
                    St({"X"}, {"y_classification"}),
                    St({"X"}, {"y_regression"}),
                    St({"nn"}, {"CombinedModel"}),
                    Module({"CombinedModel"}, "model"),
                    St({"nn"}, {"criterion_bce"}),
                    St({"nn"}, {"criterion_mse"}),
                    St({"optim", "model"}, {"optimizer"}),
                    For(100, {}, {"epoch"}),
                      ZeroGrad("optimizer", "model"),
                      St({"model", "X"}, {"y_pred_classification", "y_pred_regression"}),
                      St({"criterion_bce", "y_pred_classification", "y_classification"},
                         {"loss_classification"}),
                      St({"criterion_mse", "y_pred_regression", "y_regression"},
                         {"loss_regression"}),
                      Forward({"loss_classification", "loss_regression"}, "loss",
                              [model |-> 1]),
                      Backward("loss", FALSE),
                      OptStep("optimizer", "model"),
                      St({"epoch", "loss"}, {}),
                    End >>)

\* Loss_Functions-Cross-Entropy.ipynb
Loss_Functions_Cross_Entropy ==
    Cell(97, << Import("torch", {"torch"}),
                Import("torch", {"nn"}),
                Import("numpy", {"np"}),
                St({"torch"}, {"data"}),
                St({"data"}, {"X", "y"}),
                St({"data"}, {}) >>)
    \o Cell(137, << St({"nn"}, {"SimpleNN"}),
                    Module({"SimpleNN"}, "model"),
                    St({"model"}, {}) >>)
    \o Cell(164, << St({"nn"}, {"criterion"}),
                    St({"torch", "model"}, {"optimizer"}),
                    St({}, {"num_epochs"}),
                    St({"X"}, {"X"}),
                    For(1000, {"num_epochs"}, {"epoch"}),
                      ZeroGrad("optimizer", "model"),
                      St({"model", "X"}, {"outputs"}),
                      Forward({"criterion", "outputs", "y"}, "loss", [model |-> 1]),
                      Backward("loss", FALSE),
                      OptStep("optimizer", "model"),
                      St({"epoch", "num_epochs", "loss"}, {}),
                    End >>)
    \o Cell(208, << St({}, {"model_path"}),
                    TSave({"torch", "model_path"}, "model", "simple_nn.pth"),
                    St({"model_path"}, {}) >>)
    \o Cell(226, << Module({"SimpleNN"}, "loaded_model"),
                    TLoad({"torch", "model_path"}, "loaded_model", "simple_nn.pth"),
                    St({"loaded_model"}, {}),
                    St({"model_path"}, {}) >>)
    \o Cell(245, << St({"torch"}, {"sample_input"}),
                    St({"loaded_model", "sample_input"}, {"output"}),
                    St({"torch", "output"}, {"prediction"}),
                    St({"sample_input", "prediction"}, {}) >>)
    \o Cell(278, << St({"torch"}, {"test_data"}),
                    St({"test_data"}, {"X_test", "y_test"}),
                    St({"test_data"}, {}) >>)
    \o Cell(299, << St({"torch", "loaded_model", "X_test"}, {"test_outputs"}),
                    St({"torch", "test_outputs"}, {"test_predictions"}),
                    St({"torch", "test_predictions", "y_test"}, {"accuracy"}),
                    St({"accuracy"}, {}) >>)

\* Loss_Functions-Custom.ipynb
Loss_Functions_Custom ==
    Cell(13, << Import("torch", {"torch"}),
                Import("torch", {"nn"}),
                Import("torch", {"optim"}),
                Import("sklearn", {"load_boston", "StandardScaler", "train_test_split"}),
                Import("numpy", {"np"}) >>)
    \o Cell(29, << St({"load_boston"}, {"boston"}),
                   St({"boston"}, {"X", "y"}),
                   St({"train_test_split", "X", "y"},
                      {"X_train", "X_test", "y_train", "y_test"}),
                   St({"StandardScaler"}, {"scaler"}),
                   St({"scaler", "X_train"}, {"X_train"}),
                   St({"scaler", "X_test"}, {"X_test"}),
                   St({"torch", "X_train"}, {"X_train_tensor"}),
                   St({"torch", "y_train"}, {"y_train_tensor"}),
                   St({"torch", "X_test"}, {"X_test_tensor"}),
                   St({"torch", "y_test"}, {"y_test_tensor"}) >>)
    \o Cell(52, << St({"nn"}, {"MeanAbsolutePercentageError"}) >>)
    \o Cell(68, << SyntaxErr >>)
    \o Cell(84, << St({"model"}, {}),
                   St({"torch", "model", "X_test_tensor"}, {"y_test_pred"}),
                   St({"loss_function", "y_test_pred", "y_test_tensor"}, {"test_loss"}),
                   St({"test_loss"}, {}) >>)

\* Loss_Functions-L1.ipynb
Loss_Functions_L1 ==
    Cell(62, << Import("torch", {"torch"}),
                Import("torch", {"nn"}),
                St({"torch"}, {"x"}),
                St({"torch"}, {"y_true"}),
                Module({"nn"}, "model"),
                St({"nn"}, {"l1_loss"}),
                St({"torch", "model"}, {"optimizer"}),
                For(100, {}, {"epoch"}),
                  St({"model", "x"}, {"y_pred"}),
                  Forward({"l1_loss", "y_pred", "y_true"}, "loss", [model |-> 1]),
                  ZeroGrad("optimizer", "model"),
                  Backward("loss", FALSE),
                  OptStep("optimizer", "model"),
                  St({"epoch", "loss"}, {}),
                End >>)
    \o Cell(85, << St({"torch"}, {"x_test"}),
                   St({"torch"}, {"y_test_true"}),
                   St({"model", "x_test"}, {"y_test_pred"}),
                   St({"l1_loss", "y_test_pred", "y_test_true"}, {"test_loss"}),
                   St({"test_loss"}, {}) >>)

\* Loss_Functions-MSE.ipynb: a variant of the training loop that does not
\* zero the gradients
MSE_training_loop_without_zero_grad ==
    << For(100, {"num_epochs"}, {"epoch"}),
         St({"model", "X"}, {"predictions"}),
         Forward({"mse_loss", "predictions", "y"}, "loss", [model |-> 1]),
         Backward("loss", FALSE),
         OptStep("optimizer", "model"),
         St({"epoch", "num_epochs", "loss"}, {}),
       End >>

\* the training loop
MSE_training_loop ==
    << For(100, {"num_epochs"}, {"epoch"}),
         St({"model", "X"}, {"predictions"}),
         Forward({"mse_loss", "predictions", "y"}, "loss", [model |-> 1]),
         Backward("loss", FALSE),
         OptStep("optimizer", "model"),
         ZeroGrad("optimizer", "model"),
         St({"epoch", "num_epochs", "loss"}, {}),
       End >>

\* a variant that loads the parameters before it saves them
MSE_load_before_save ==
    << Module({"LinearRegression"}, "loaded_model"),
       TLoad({"torch"}, "loaded_model", "linear_regression_model.pth"),
       TSave({"torch"}, "model", "linear_regression_model.pth") >>

\* the cell that saves and reloads the parameters
MSE_save_load ==
    << TSave({"torch"}, "model", "linear_regression_model.pth"),
       Module({"LinearRegression"}, "loaded_model"),
       TLoad({"torch"}, "loaded_model", "linear_regression_model.pth") >>

Loss_Functions_MSE ==
    Cell(65, << Import("torch", {"torch"}),
                Import("torch", {"nn"}),
                St({"torch"}, {}),
                St({}, {"learning_rate", "num_epochs"}) >>)
    \o Cell(107, << St({"torch"}, {"X"}),
                    St({"X", "torch"}, {"y"}),
                    St({"nn"}, {"LinearRegression"}),
                    Module({"LinearRegression"}, "model"),
                    St({"nn"}, {"mse_loss"}),
                    St({"torch", "model", "learning_rate"}, {"optimizer"}) >>)
    \o Cell(142, MSE_training_loop)
    \o Cell(182, << Import("matplotlib", {"plt"}),
                    St({}, {"loss_values"}),
                    For(100, {"num_epochs"}, {"epoch"}),
                      St({"loss_values", "loss"}, {}),
                    End,
                    St({"plt", "loss_values"}, {}) >>)
    \o Cell(220, MSE_save_load)
    \o Cell(247, << St({"torch"}, {"X_test"}),
                    St({"X_test", "torch"}, {"y_test"}),
                    St({"loaded_model", "X_test"}, {"predictions_test"}),
                    St({"mse_loss", "predictions_test", "y_test"}, {"loss_test"}),
                    St({"loss_test"}, {}) >>)
    \o Cell(292, << St({"torch"}, {"new_data_point"}),
                    St({"loaded_model", "new_data_point"}, {"prediction"}),
                    St({"prediction"}, {}) >>)

\* PyTorch-Autograd.ipynb.  z = x**2 * y at x = 2, y = 3: dz/dx = 2xy = 12,
\* dz/dy = x**2 = 4
Autograd_backward_twice ==
    Cell(56, << Forward({"x", "y"}, "z", [x |-> 12, y |-> 4]),
                Backward("z", FALSE),
                St({"x"}, {}),
                St({"y"}, {}) >>)
    \o Cell(76, << Backward("z", TRUE),
                   St({"x"}, {}),
                   St({"y"}, {}),
                   Zero_("x"),
                   Zero_("y") >>)

\* y = x**2 at x = 3: dy/dx = 2x = 6
PyTorch_Autograd ==
    Cell(34, << Import("torch", {"torch"}),
                Leaf({"torch"}, "x"),
                Leaf({"torch"}, "y"),
                St({"x"}, {}),
                St({"y"}, {}) >>)
    \o Autograd_backward_twice
    \o Cell(97, << St({"x"}, {"detached_x"}),
                   St({"detached_x"}, {}) >>)
    \o Cell(115, << St({"torch", "x"}, {"y"}),
                    St({"y"}, {}) >>)
    \o Cell(133, << Leaf({"torch"}, "x"),
                    Forward({"x"}, "y", [x |-> 6]),
                    Backward("y", FALSE),
                    St({"x"}, {}) >>)

\* PyTorch-Data_Loading_Preprocessing.ipynb: CustomImageDataset.__init__
CustomImageDataset_init_locals == {"__init__:self"}

CustomImageDataset_init(annotations_file, img_dir, transform) ==
    << St({"pd", annotations_file}, {"__init__:self"}),
       St({"__init__:self", img_dir, transform}, {}) >>

\* a variant that goes through the batches of train_loader
CIFAR10_loaders_iterated ==
    << St({"datasets", "transform"}, {"train_dataset"}),
       St({"datasets", "transform"}, {"val_dataset"}),
       Loader({"DataLoader", "train_dataset"}, {"train_loader"}, 4),
       Loader({"DataLoader", "val_dataset"}, {"val_loader"}, 4),
       For(500, {"train_loader"}, {"images", "labels"}),
         St({"images", "labels"}, {}),
       End >>

\* the cell that loads CIFAR-10 and builds the loaders
CIFAR10_loaders ==
    << St({"datasets", "transform"}, {"train_dataset"}),
       St({"datasets", "transform"}, {"val_dataset"}),
       Loader({"DataLoader", "train_dataset"}, {"train_loader"}, 4),
       Loader({"DataLoader", "val_dataset"}, {"val_loader"}, 4) >>

PyTorch_Data_Loading_Preprocessing ==
    Cell(32, << Import("os", {"os"}),
                Import("torch", {"torch"}),
                Import("torch", {"Dataset"}),
                Import("PIL", {"Image"}) >>)
    \o Cell(51, << St({"Dataset"}, {"CustomImageDataset"}) >>)
    \o Cell(89, << Import("torchvision", {"transforms"}) >>)
    \o Cell(105, << St({"transforms"}, {"transform"}) >>)
    \o Cell(126, << St({}, {"ToGrayscale"}) >>)
    \o Cell(148, << Import("torch", {"DataLoader"}) >>)
    \o Cell(164, << St({}, {"annotations_file", "img_dir"}) >>
                 \o Invoke("CustomImageDataset", {"annotations_file", "img_dir", "transform"},
                           CustomImageDataset_init("annotations_file", "img_dir", "transform"),
                           CustomImageDataset_init_locals, {"dataset"})
                 \o << Loader({"DataLoader", "dataset"}, {"data_loader"}, 4) >>)
    \o Cell(187, << Import("torch", {"random_split"}) >>)
    \o Cell(203, << St({"dataset"}, {"train_size"}),
                    St({"dataset", "train_size"}, {"val_size"}),
                    St({"random_split", "dataset", "train_size", "val_size"},
                       {"train_dataset", "val_dataset"}) >>)
    \o Cell(225, << Import("torchvision", {"datasets"}) >>)
    \o Cell(241, CIFAR10_loaders)

\* PyTorch-Feature_Columns.ipynb
PyTorch_Feature_Columns ==
    Cell(41, << Import("torch", {"torch"}),
                St({"torch"}, {"data"}),
                St({"data"}, {}) >>)
    \o Cell(93, << St({"data"}, {"numeric_features"}),
                   St({"torch", "numeric_features"}, {"min_values"}),
                   St({"torch", "numeric_features"}, {"max_values"}),
                   St({"numeric_features", "min_values", "max_values"},
                      {"normalized_numeric_features"}),
                   St({"normalized_numeric_features"}, {}) >>)
    \o Cell(153, << St({"data"}, {"area_feature"}),
                    St({"torch", "area_feature"}, {"bucketized_area"}),
                    St({"bucketized_area"}, {}) >>)
    \o Cell(208, << Import("torch", {"SGD"}),
                    St({"torch", "normalized_numeric_features", "bucketized_area"},
                       {"input_features"}),
                    Module({"nn", "input_features"}, "model"),
                    St({"nn"}, {"criterion"}),
                    St({"SGD", "model"}, {"optimizer"}),
                    For(1000, {}, {"epoch"}),
                      ZeroGrad("optimizer", "model"),
                      St({"model", "input_features"}, {"predictions"}),
                      Forward({"criterion", "predictions", "data"}, "loss", [model |-> 1]),
                      Backward("loss", FALSE),
                      OptStep("optimizer", "model"),
                    End,
                    TSave({"torch"}, "model", "trained_model.pt") >>)
    \o Cell(252, << Module({"nn", "input_features"}, "loaded_model"),
                    TLoad({"torch"}, "loaded_model", "trained_model.pt") >>)

\* PyTorch-Forward_Propagation.ipynb
PyTorch_Forward_Propagation ==
    Cell(100, << Import("torch", {"torch"}),
                 Import("torch", {"nn"}),
                 Import("numpy", {"np"}),
                 St({"torch"}, {"data"}),
                 St({"data"}, {"X", "y"}),
                 St({"data"}, {}) >>)
    \o Cell(126, << Import("torch", {"torch"}),
                    Import("torch", {"nn"}),
                    St({"torch"}, {"data"}),
                    St({"data"}, {"X", "y"}),
                    St({"data"}, {}) >>)
    \o Cell(158, << St({"nn"}, {"SimpleNN"}),
                    Module({"SimpleNN"}, "model"),
                    St({"model"}, {}) >>)
    \o Cell(205, << St({"X"}, {"X_input"}),
                    St({"model", "X_input"}, {"output_probs"}) >>)
    \o Cell(235, << St({}, {"threshold"}),
                    St({"output_probs", "threshold"}, {"predictions"}),
                    St({"predictions"}, {}),
                    St({"y"}, {}) >>)

\* unnamed/part_001 (tensors).  out = mean(3 * (x + 2)**2) over the four
\* elements of x = ones(2, 2): d(out)/dx = 6 (x + 2) / 4 = 4.5 per element,
\* 9 in halves
Tensors ==
    Cell(28, << Pip({"torch"}) >>)
    \o Cell(46, << Import("torch", {"torch"}) >>)
    \o Cell(55, << St({}, {"data"}),
                   St({"torch", "data"}, {"x_data"}),
                   Import("numpy", {"np"}),
                   St({"np", "data"}, {"np_array"}),
                   St({"torch", "np_array"}, {"x_np"}),
                   St({"torch", "x_data"}, {"x_ones"}),
                   St({"x_ones"}, {}),
                   St({"torch", "x_data"}, {"x_rand"}),
                   St({"x_rand"}, {}),
                   St({}, {"shape"}),
                   St({"torch", "shape"}, {"rand_tensor"}),
                   St({"torch", "shape"}, {"ones_tensor"}),
                   St({"torch", "shape"}, {"zeros_tensor"}),
                   St({"rand_tensor", "ones_tensor", "zeros_tensor"}, {}) >>)
    \o Cell(100, << St({"torch"}, {"tensor"}),
                    St({"tensor"}, {}) >>)
    \o Cell(125, << St({"torch"}, {}),
                    St({"torch"}, {"tensor"}),
                    St({"tensor"}, {}),
                    St({"torch", "tensor"}, {"t1"}),
                    St({"t1"}, {}),
                    St({"tensor"}, {}) >>)
    \o Cell(166, << St({"tensor"}, {}) >>)
    \o Cell(194, << St({"torch"}, {"t"}),
                    St({"t"}, {}),
                    St({"t"}, {"n"}),
                    St({"n"}, {}),
                    St({"t"}, {}),
                    St({"t", "n"}, {}) >>)
    \o Cell(223, << St({"np"}, {"n"}),
                    St({"torch", "n"}, {"t"}),
                    St({"np", "n"}, {}),
                    St({"t", "n"}, {}) >>)
    \o Cell(250, << Leaf({"torch"}, "x"),
                    St({"x"}, {}),
                    St({"x"}, {"y"}),
                    St({"y"}, {}),
                    St({"y"}, {"z"}),
                    Forward({"z"}, "out", [x |-> 9]),
                    St({"z", "out"}, {}) >>)
    \o Cell(287, << Backward("out", FALSE),
                    St({"x"}, {}) >>)

\* unnamed/part_002 (optimizers): snippets over a model, a loss and a data
\* loader that the notebook never defines
Optimizers ==
    Cell(18, << Import("torch", {"optim"}),
                St({"optim", "model"}, {"optimizer"}) >>)
    \o Cell(30, << Import("torch", {"optim"}),
                   St({"optim", "net"}, {"optimizer"}) >>)
    \o Cell(42, << Backward("loss", FALSE),
                   OptStep("optimizer", "model") >>)
    \o Cell(54, << ZeroGrad("optimizer", "model") >>)
    \o Cell(66, << Import("torch", {"torch"}),
                   Import("torch", {"nn"}),
                   Import("torch", {"optim"}),
                   St({"nn"}, {"loss_function"}),
                   St({"optim", "net"}, {"optimizer"}),
                   For(0, {"epochs"}, {"epoch"}),
                     For(0, {"data_loader"}, {"inputs", "targets"}),
                       ZeroGrad("optimizer", "net"),
                       St({"net", "inputs"}, {"outputs"}),
                       Forward({"loss_function", "outputs", "targets"}, "loss", [net |-> 1]),
                       Backward("loss", FALSE),
                       OptStep("optimizer", "net"),
                     End,
                   End >>)

\* unnamed/part_003, first notebook (combining loss functions)
Combining_Losses ==
    Cell(17, << Import("torch", {"torch"}),
                Import("torch", {"nn"}),
                Import("torch", {"optim"}),
                St({"torch"}, {}),
                St({"torch"}, {"regression_data"}),
                St({"regression_data", "torch"}, {"regression_targets"}),
                St({"torch"}, {"classification_data"}),
                St({"torch"}, {"classification_targets"}),
                St({"regression_data", "regression_targets", "classification_data",
                    "classification_targets"}, {}) >>)
    \o Cell(51, << St({"nn"}, {"SimpleModel"}),
                   Module({"SimpleModel"}, "model"),
                   St({"model"}, {}),
                   St({"nn"}, {"mse_loss"}),
                   St({"nn"}, {"cross_entropy_loss"}) >>)
    \o Cell(85, << St({}, {"combined_loss"}),
                   St({"optim", "model"}, {"optimizer"}),
                   For(100, {}, {"epoch"}),
                     ZeroGrad("optimizer", "model"),
                     St({"model", "regression_data"},
                        {"regression_output", "classification_output"}),
                     Forward({"combined_loss", "regression_output", "classification_output",
                              "regression_targets", "classification_targets",
                              "mse_loss", "cross_entropy_loss"}, "loss", [model |-> 1]),
                     Backward("loss", FALSE),
                     OptStep("optimizer", "model"),
                     St({"epoch", "loss"}, {}),
                   End >>)
    \o Cell(118, << St({}, {"evaluate_model"}),
                    St({"evaluate_model", "model", "regression_data", "regression_targets",
                        "classification_data", "classification_targets", "torch",
                        "mse_loss"}, {"regression_mse", "classification_accuracy"}),
                    St({"regression_mse", "classification_accuracy"}, {}) >>)

\* unnamed/part_003, third notebook (a digit classifier):
\* def train(model, data_loader, loss_fn, optimizer, device)
Digits_train_locals ==
    {"train:batch_idx", "train:data", "train:target", "train:output", "train:loss"}

\* 60000 training images in batches of 64: 938 batches
Digits_train(model, data_loader, loss_fn, optimizer, device) ==
    << St({model}, {}),
       For(938, {data_loader}, {"train:batch_idx", "train:data", "train:target"}),
         St({"train:data", "train:target", device}, {"train:data", "train:target"}),
         ZeroGrad(optimizer, model),
         St({model, "train:data"}, {"train:output"}),
         Forward({loss_fn, "train:output", "train:target"}, "train:loss", model :> 1),
         Backward("train:loss", FALSE),
         OptStep(optimizer, model),
       End >>

Digits ==
    Cell(457, << Import("torch", {"torch"}),
                 Import("torch", {"nn"}),
                 St({"torch"}, {}) >>)
    \o Cell(485, << St({"nn"}, {"DigitClassifier"}),
                    Module({"DigitClassifier"}, "model"),
                    St({"model"}, {}) >>)
    \o Cell(527, << Import("torch", {"DataLoader"}),
                    Import("torchvision", {"datasets", "transforms"}),
                    St({"transforms"}, {"transform"}),
                    St({"datasets", "transform"}, {"train_set"}),
                    St({"datasets", "transform"}, {"test_set"}),
                    Loader({"DataLoader", "train_set"}, {"train_loader"}, 0),
                    Loader({"DataLoader", "test_set"}, {"test_loader"}, 0),
                    St({"nn"}, {"loss_fn"}),
                    St({"torch", "model"}, {"optimizer"}) >>)
    \o Cell(556, << St({}, {"train"}),
                    St({"torch"}, {"device"}),
                    St({"model", "device"}, {}),
                    For(10, {}, {"epoch"}) >>
                 \o Invoke("train", {"model", "train_loader", "loss_fn", "optimizer", "device"},
                           Digits_train("model", "train_loader", "loss_fn", "optimizer",
                                        "device"),
                           Digits_train_locals, {})
                 \o << St({"epoch"}, {}),
                       End >>)
    \o Cell(595, << TSave({"torch"}, "model", "digit_classifier.pth"),
                    Module({"DigitClassifier"}, "loaded_model"),
                    TLoad({"torch"}, "loaded_model", "digit_classifier.pth"),
                    St({"loaded_model"}, {}) >>)
    \o Cell(624, << St({}, {"test"}),
                    St({}, {"visualize_predictions"}),
                    St({"test_accuracy"}, {}) >>)
    \o Cell(655, << Import("matplotlib", {"plt"}),
                    St({}, {"visualize_predictions"}) >>)

\* unnamed/part_006 (neural networks): snippets, the imports come last
Neural_Networks ==
    Cell(35, << St({"nn"}, {"CustomNetwork"}) >>)
    \o Cell(62, << Module({"nn"}, "linear"),
                   St({"nn"}, {"conv2d"}),
                   St({"nn"}, {"maxpool2d"}),
                   St({"nn"}, {"dropout"}) >>)
    \o Cell(86, << St({"nn"}, {"relu"}),
                   St({"nn"}, {"sigmoid"}),
                   St({"nn"}, {"tanh"}),
                   St({"nn"}, {"softmax"}) >>)
    \o Cell(110, << St({"nn"}, {"mse_loss"}),
                    St({"nn"}, {"cross_entropy_loss"}),
                    St({"nn"}, {"bce_loss"}),
                    St({"nn"}, {"l1_loss"}) >>)
    \o Cell(135, << For(0, {"num_epochs"}, {"epoch"}),
                      For(0, {"train_loader"}, {"inputs", "targets"}),
                        St({"model", "inputs"}, {"outputs"}),
                        Forward({"loss_function", "outputs", "targets"}, "loss",
                                [model |-> 1]),
                        ZeroGrad("optimizer", "model"),
                        Backward("loss", FALSE),
                        OptStep("optimizer", "model"),
                      End,
                    End >>)
    \o Cell(161, << Import("torch", {"torch"}),
                    Import("torch", {"nn"}),
                    Import("torch", {"F"}),
                    St({"nn"}, {"Net"}),
                    Module({"Net"}, "net"),
                    St({"net"}, {}) >>)

-----------------------------------------------------------------------------
\* the notebooks of the repository, by source file (and first line, where a
\* file holds more than one notebook)
Prog ==
    [n \in {"Algorithms-A2C.ipynb", "Algorithms-DDPG.ipynb", "Algorithms-SAC.ipynb:1",
            "Algorithms-SAC.ipynb:145", "Algorithms-TD3.ipynb", "Gym-Environments.ipynb",
            "Gym-Reward_Functions.ipynb", "Loss_Functions-Binary_Cross-Entropy.ipynb",
            "Loss_Functions-Cross-Entropy.ipynb", "Loss_Functions-Custom.ipynb",
            "Loss_Functions-L1.ipynb", "Loss_Functions-MSE.ipynb", "PyTorch-Autograd.ipynb",
            "PyTorch-Data_Loading_Preprocessing.ipynb", "PyTorch-Feature_Columns.ipynb",
            "PyTorch-Forward_Propagation.ipynb", "SB3-Environments.ipynb",
            "SB3-Model_Training_and_Eval.ipynb", "SB3-Overview.ipynb",
            "unnamed/part_001", "unnamed/part_002", "unnamed/part_003:1",
            "unnamed/part_003:159", "unnamed/part_003:417", "unnamed/part_004",
            "unnamed/part_005", "unnamed/part_006", "unnamed/part_008"} |->
        CASE n = "Algorithms-A2C.ipynb" -> Algorithms_A2C
          [] n = "Algorithms-DDPG.ipynb" -> Algorithms_DDPG
          [] n = "Algorithms-SAC.ipynb:1" -> Algorithms_SAC
          [] n = "Algorithms-SAC.ipynb:145" -> Loss_Functions_NLL
          [] n = "Algorithms-TD3.ipynb" -> Algorithms_TD3
          [] n = "Gym-Environments.ipynb" -> Gym_Environments
          [] n = "Gym-Reward_Functions.ipynb" -> Gym_Reward_Functions
          [] n = "Loss_Functions-Binary_Cross-Entropy.ipynb" -> Loss_Functions_Binary_Cross_Entropy
          [] n = "Loss_Functions-Cross-Entropy.ipynb" -> Loss_Functions_Cross_Entropy
          [] n = "Loss_Functions-Custom.ipynb" -> Loss_Functions_Custom
          [] n = "Loss_Functions-L1.ipynb" -> Loss_Functions_L1
          [] n = "Loss_Functions-MSE.ipynb" -> Loss_Functions_MSE
          [] n = "PyTorch-Autograd.ipynb" -> PyTorch_Autograd
          [] n = "PyTorch-Data_Loading_Preprocessing.ipynb" -> PyTorch_Data_Loading_Preprocessing
          [] n = "PyTorch-Feature_Columns.ipynb" -> PyTorch_Feature_Columns
          [] n = "PyTorch-Forward_Propagation.ipynb" -> PyTorch_Forward_Propagation
          [] n = "SB3-Environments.ipynb" -> SB3_Environments
          [] n = "SB3-Model_Training_and_Eval.ipynb" -> SB3_Model_Training_and_Eval
          [] n = "SB3-Overview.ipynb" -> SB3_Overview
          [] n = "unnamed/part_001" -> Tensors
          [] n = "unnamed/part_002" -> Optimizers
          [] n = "unnamed/part_003:1" -> Combining_Losses
          [] n = "unnamed/part_003:159" -> Rendering
          [] n = "unnamed/part_003:417" -> Digits
          [] n = "unnamed/part_004" -> Episodes
          [] n = "unnamed/part_005" -> PPO
          [] n = "unnamed/part_006" -> Neural_Networks
          [] n = "unnamed/part_008" -> Spaces]

Notebooks == DOMAIN Prog

-----------------------------------------------------------------------------
(***************************************************************************)
(* Structure of a program: loops.                                          *)
(***************************************************************************)
RECURSIVE ScanEnd(_, _, _)
\* the index of the End that closes the loop body in which instruction i lies,
\* d being the number of loops opened since
ScanEnd(p, i, d) ==
    IF i > Len(p) THEN i
    ELSE IF p[i].op \in {"for", "while"} THEN ScanEnd(p, i + 1, d + 1)
    ELSE IF p[i].op = "end" THEN (IF d = 0 THEN i ELSE ScanEnd(p, i + 1, d - 1))
    ELSE ScanEnd(p, i + 1, d)

\* the End of the innermost loop around instruction i (of the loop i opens, if
\* i is a loop head)
MatchEnd(p, i) == ScanEnd(p, i + 1, 0)

\* the head (for / while) of the loop that the End at j closes
LoopHead(p, j) == CHOOSE h \in 1..j : p[h].op \in {"for", "while"} /\ MatchEnd(p, h) = j

\* the first instruction of the cell after the cell of instruction i
NextCell(p, i) ==
    IF \E j \in i..Len(p) : p[j].cell # p[i].cell
    THEN CHOOSE j \in i..Len(p) :
            /\ p[j].cell # p[i].cell
            /\ \A l \in i..(j - 1) : p[l].cell = p[i].cell
    ELSE Len(p) + 1

Drop(f, names) == [x \in (DOMAIN f) \ names |-> f[x]]

-----------------------------------------------------------------------------
(***************************************************************************)
(* The kernel of a notebook.                                               *)
(***************************************************************************)
FreshKernel ==
    [pc        |-> 1,      \* the next instruction
     bound     |-> {},     \* the names bound in the kernel's namespace
     installed |-> {},     \* the packages installed by !pip install
     imported  |-> {},     \* the packages imported
     raised    |-> {},     \* the exceptions raised: [cell, kind]
     done      |-> <<>>,   \* the value of every `done` variable
     envs      |-> <<>>,   \* the environment every env variable holds
     ctr       |-> <<>>,   \* for loops in progress: head -> iteration
     stack     |-> <<>>,   \* the function calls in progress
     objs      |-> <<>>,   \* agents, modules and leaf tensors, by creating instruction
     ref       |-> <<>>,   \* the object every variable refers to
     graph     |-> <<>>,   \* the autograd graph of every result tensor
     loads     |-> {},     \* the checkpoints loaded: [path, writer]
     workers   |-> {},     \* the num_workers of the data loaders built
     loaders   |-> <<>>,   \* the num_workers of the data loader every variable holds
     procs     |-> {},     \* the data loaders whose worker processes have been started
     lists     |-> <<>>]   \* the length of the list every list variable holds

\* gym.make: no episode yet
NewEnv(vec) ==
    [st      |-> "new",    \* "new", "ready" (in an episode), "done", "closed"
     t       |-> 0,        \* steps taken in the episode
     vec     |-> vec,      \* a vectorized environment resets itself on done
     pending |-> FALSE,    \* step returned done=True and the notebook has not called reset since
     late    |-> FALSE,    \* the notebook called step while pending
     stale   |-> FALSE,    \* step was called outside an episode
     dones   |-> 0,        \* steps that returned done=True
     resets  |-> 0]        \* reset calls made by the notebook

NewObj(kind, origin, trained) ==
    [kind    |-> kind,     \* "agent", "module", "leaf"
     origin  |-> origin,   \* "new" or "loaded"
     learns  |-> 0,        \* learn() calls
     trained |-> trained,
     predicted |-> FALSE,
     early   |-> FALSE,    \* predict() was called on it untrained
     grad    |-> 0,        \* .grad: what the backward passes since the last zeroing added (0: None or zeros)
     applied |-> -1,       \* .grad at the last optimizer.step(); -1: no step yet
     steps   |-> 0]        \* optimizer.step() calls

NoCall == [fn |-> NoOne]

\* the program of notebook n
P(n) == running[n]
Cur(n) == P(n)[kernel[n].pc]
\* notebook n may execute its next instruction: cells are atomic
Live(n) == n \in DOMAIN running /\ turn \in {NoOne, n} /\ kernel[n].pc <= Len(P(n))
At(n, op) == Live(n) /\ Cur(n).op = op
\* notebook n has run all its cells
Finished(n) == kernel[n].pc > Len(P(n))
\* the module that a package installed with pip provides
ModuleOf(pkg) == IF pkg = "stable-baselines3" THEN "stable_baselines3" ELSE pkg

\* every name the statement reads is bound
Ready(n, op) == At(n, op) /\ Cur(n).reads \subseteq kernel[n].bound

\* the names of the instruction become bound; a rebound name no longer refers
\* to the object or graph it referred to
Bind(k, names) ==
    [k EXCEPT !.bound = @ \cup names, !.ref = Drop(@, names), !.graph = Drop(@, names),
              !.loaders = Drop(@, names), !.lists = Drop(@, names)]

\* the kernel goes on at instruction pc2 in state k, the directory in state f
Commit(n, k, pc2, f) ==
    /\ kernel' = [kernel EXCEPT ![n] = [k EXCEPT !.pc = pc2]]
    /\ files' = f
    /\ turn' = IF pc2 <= Len(P(n)) /\ P(n)[pc2].cell = Cur(n).cell THEN n ELSE NoOne
    /\ UNCHANGED <<running, call>>

Go(n, k) == Commit(n, k, kernel[n].pc + 1, files)

\* the names local to the calls in progress
RECURSIVE LocalsOf(_)
LocalsOf(stack) == IF stack = <<>> THEN {} ELSE Head(stack).locals \cup LocalsOf(Tail(stack))

\* an exception ends the cell: the calls in progress are unwound and the
\* kernel goes on with the next cell
Abort(n, kind) ==
    LET k == kernel[n]
        gone == LocalsOf(k.stack)
    IN  Commit(n, [k EXCEPT !.raised = @ \cup {[cell |-> Cur(n).cell, kind |-> kind]},
                            !.bound = @ \ gone, !.ref = Drop(@, gone),
                            !.graph = Drop(@, gone), !.envs = Drop(@, gone),
                            !.done = Drop(@, gone),
                            !.stack = <<>>, !.ctr = <<>>],
               NextCell(P(n), k.pc), files)

\* an environment call is recorded in the function call in progress
Traced(k, op, d) ==
    IF k.stack = <<>> THEN k
    ELSE [k EXCEPT !.stack[Len(k.stack)].trace = Append(@, [op |-> op, done |-> d])]

-----------------------------------------------------------------------------
(***************************************************************************)
(* The kernel's steps, one per kind of statement.                          *)
(***************************************************************************)
ExecStmt(n) ==
    /\ Ready(n, "stmt")
    /\ Go(n, Bind(kernel[n], Cur(n).binds))

ExecImport(n) ==
    /\ Ready(n, "import")
    /\ Go(n, [Bind(kernel[n], Cur(n).binds) EXCEPT !.imported = @ \cup Cur(n).pkgs])

ExecPip(n) ==
    /\ Ready(n, "pip")
    /\ Go(n, [kernel[n] EXCEPT !.installed = @ \cup Cur(n).pkgs])

\* a cell that does not compile runs none of its statements
RaiseSyntaxError(n) ==
    /\ At(n, "syntaxerror")
    /\ Abort(n, "SyntaxError")

\* reading an unbound name
RaiseNameError(n) ==
    /\ Live(n)
    /\ ~(Cur(n).reads \subseteq kernel[n].bound)
    /\ Abort(n, "NameError")

ExecMake(n) ==
    /\ Ready(n, "make")
    /\ LET k == Bind(kernel[n], Cur(n).binds)
       IN  Go(n, [k EXCEPT !.envs = Put(@, Cur(n).obj, NewEnv(Cur(n).arg = "vec"))])

ExecWrap(n) ==
    /\ Ready(n, "wrap")
    /\ Go(n, [kernel[n] EXCEPT !.envs[Cur(n).obj].vec = TRUE])

\* env.reset(), or `if done: env.reset()`
ExecReset(n) ==
    /\ Ready(n, "reset")
    /\ LET k == kernel[n]
           e == Cur(n).obj
       IN  IF Cur(n).cond = "always" \/ k.done[Cur(n).cond]
           THEN Go(n, Traced([Bind(k, Cur(n).binds) EXCEPT
                                 !.envs[e].st = "ready", !.envs[e].t = 0,
                                 !.envs[e].pending = FALSE,
                                 !.envs[e].resets = @ + 1],
                             "reset", FALSE))
           ELSE Go(n, k)

ExecSample(n) ==
    /\ Ready(n, "sample")
    /\ Go(n, Traced(Bind(kernel[n], Cur(n).binds), "sample", FALSE))

\* env.step(action).  In an episode the step may end it, and ends it at the
\* latest after MaxEpisodeSteps steps; a vectorized environment then starts
\* the next episode by itself.  Outside an episode gym leaves the result
\* undefined.
ExecStep(n) ==
    /\ Ready(n, "step")
    /\ \E d \in BOOLEAN :
         LET k == kernel[n]
             e == Cur(n).obj
             env == k.envs[e]
             in_episode == env.st = "ready"
             env2 == IF ~in_episode THEN [env EXCEPT !.stale = TRUE]
                     ELSE IF ~d THEN [env EXCEPT !.t = @ + 1]
                     ELSE IF env.vec
                     THEN [env EXCEPT !.t = 0, !.pending = TRUE, !.dones = @ + 1]
                     ELSE [env EXCEPT !.t = @ + 1, !.st = "done", !.pending = TRUE,
                                      !.dones = @ + 1]
         IN  /\ in_episode /\ env.t + 1 >= MaxEpisodeSteps => d
             /\ Go(n, Traced([Bind(k, Cur(n).binds) EXCEPT
                                 !.envs[e] = [env2 EXCEPT !.late = @ \/ env.pending],
                                 !.done = Put(@, Cur(n).arg, d)],
                             "step", d))

ExecRender(n) ==
    /\ Ready(n, "render")
    /\ Go(n, Bind(kernel[n], Cur(n).binds))

ExecClose(n) ==
    /\ Ready(n, "close")
    /\ Go(n, [kernel[n] EXCEPT !.envs[Cur(n).obj].st = "closed"])

ExecSetDone(n) ==
    /\ Ready(n, "setdone")
    /\ Go(n, [Bind(kernel[n], Cur(n).binds) EXCEPT !.done = Put(@, Cur(n).arg, FALSE)])

-----------------------------------------------------------------------------
\* agent = PPO(...)
ExecAgent(n) ==
    /\ Ready(n, "agent")
    /\ LET k == Bind(kernel[n], Cur(n).binds)
       IN  Go(n, [k EXCEPT !.objs = Put(@, k.pc, NewObj("agent", "new", FALSE)),
                           !.ref = Put(@, Cur(n).obj, k.pc)])

\* agent.learn(...) returns the agent itself
ExecLearn(n) ==
    /\ Ready(n, "learn")
    /\ LET k == kernel[n]
           o == k.ref[Cur(n).obj]
           k2 == Bind(k, Cur(n).binds)
       IN  Go(n, [k2 EXCEPT !.objs[o].learns = @ + 1, !.objs[o].trained = TRUE,
                            !.ref = [x \in DOMAIN k2.ref \cup Cur(n).binds |->
                                        IF x \in Cur(n).binds THEN o ELSE k2.ref[x]]])

ExecPredict(n) ==
    /\ Ready(n, "predict")
    /\ LET k == kernel[n]
           o == k.ref[Cur(n).obj]
       IN  Go(n, [Bind(k, Cur(n).binds) EXCEPT
                     !.objs[o].predicted = TRUE,
                     !.objs[o].early = @ \/ ~k.objs[o].trained])

ExecSave(n) ==
    /\ Ready(n, "save")
    /\ LET k == kernel[n]
           o == k.ref[Cur(n).obj]
       IN  Commit(n, k, k.pc + 1,
                  Put(files, Cur(n).arg, [writer |-> n, trained |-> k.objs[o].trained]))

\* agent = PPO.load(path); a path that is not in the working directory raises
ExecLoad(n) ==
    /\ Ready(n, "load")
    /\ IF Cur(n).arg \in DOMAIN files
       THEN LET k == Bind(kernel[n], Cur(n).binds)
                f == files[Cur(n).arg]
            IN  Go(n, [k EXCEPT !.objs = Put(@, k.pc, NewObj("agent", "loaded", f.trained)),
                                !.ref = Put(@, Cur(n).obj, k.pc),
                                !.loads = @ \cup {[path |-> Cur(n).arg, writer |-> f.writer]}])
       ELSE Abort(n, "FileNotFoundError")

-----------------------------------------------------------------------------
ExecModule(n) ==
    /\ Ready(n, "module")
    /\ LET k == Bind(kernel[n], Cur(n).binds)
       IN  Go(n, [k EXCEPT !.objs = Put(@, k.pc, NewObj("module", "new", FALSE)),
                           !.ref = Put(@, Cur(n).obj, k.pc)])

ExecLeaf(n) ==
    /\ Ready(n, "leaf")
    /\ LET k == Bind(kernel[n], Cur(n).binds)
       IN  Go(n, [k EXCEPT !.objs = Put(@, k.pc, NewObj("leaf", "new", FALSE)),
                           !.ref = Put(@, Cur(n).obj, k.pc)])

\* the graph of the result refers to the objects its leaves are bound to now
ExecForward(n) ==
    /\ Ready(n, "forward")
    /\ LET k == kernel[n]
           g == Cur(n).g
           leaves == {l \in DOMAIN g : l \in DOMAIN k.ref}
           ids == {k.ref[l] : l \in leaves}
           gr == [o \in ids |-> g[CHOOSE l \in leaves : k.ref[l] = o]]
       IN  Go(n, [Bind(k, Cur(n).binds) EXCEPT
                     !.graph = Put(@, Cur(n).obj, [alive |-> TRUE, g |-> gr])])

\* backward() adds to the .grad of every leaf and frees the graph unless
\* retain_graph=True
ExecBackward(n) ==
    /\ Ready(n, "backward")
    /\ kernel[n].graph[Cur(n).obj].alive
    /\ LET k == kernel[n]
           gr == k.graph[Cur(n).obj].g
       IN  Go(n, [k EXCEPT !.objs = [o \in DOMAIN @ |->
                                        IF o \in DOMAIN gr
                                        THEN [@[o] EXCEPT !.grad = @ + gr[o]]
                                        ELSE @[o]],
                           !.graph[Cur(n).obj].alive = Cur(n).retain])

\* backward() through a graph that a backward() has freed
RaiseGraphFreed(n) ==
    /\ Ready(n, "backward")
    /\ ~kernel[n].graph[Cur(n).obj].alive
    /\ Abort(n, "RuntimeError")

\* optimizer.zero_grad() on a module, x.grad.zero_() on a leaf
ExecZeroGrad(n) ==
    /\ Ready(n, "zero_grad")
    /\ Go(n, [kernel[n] EXCEPT !.objs[kernel[n].ref[Cur(n).obj]].grad = 0])

ExecOptStep(n) ==
    /\ Ready(n, "opt_step")
    /\ LET k == kernel[n]
           o == k.ref[Cur(n).obj]
       IN  Go(n, [k EXCEPT !.objs[o].applied = k.objs[o].grad,
                           !.objs[o].steps = @ + 1,
                           !.objs[o].trained = TRUE])

ExecTorchSave(n) ==
    /\ Ready(n, "tsave")
    /\ LET k == kernel[n]
           o == k.ref[Cur(n).obj]
       IN  Commit(n, k, k.pc + 1,
                  Put(files, Cur(n).arg, [writer |-> n, trained |-> k.objs[o].trained]))

\* m.load_state_dict(torch.load(path)); a path that is not in the working
\* directory raises
ExecTorchLoad(n) ==
    /\ Ready(n, "tload")
    /\ IF Cur(n).arg \in DOMAIN files
       THEN LET k == kernel[n]
                o == k.ref[Cur(n).obj]
                f == files[Cur(n).arg]
            IN  Go(n, [k EXCEPT !.objs[o].origin = "loaded", !.objs[o].trained = f.trained,
                                !.loads = @ \cup {[path |-> Cur(n).arg, writer |-> f.writer]}])
       ELSE Abort(n, "FileNotFoundError")

\* DataLoader(...) starts no process; the workers start when the loader is
\* iterated
ExecLoader(n) ==
    /\ Ready(n, "loader")
    /\ LET k == Bind(kernel[n], Cur(n).binds)
       IN  Go(n, [k EXCEPT !.workers = @ \cup {Cur(n).n},
                           !.loaders = [x \in DOMAIN @ \cup Cur(n).binds |->
                                           IF x \in Cur(n).binds THEN Cur(n).n ELSE @[x]]])

ExecNewList(n) ==
    /\ Ready(n, "newlist")
    /\ LET k == Bind(kernel[n], Cur(n).binds)
       IN  Go(n, [k EXCEPT !.lists = Put(@, Cur(n).obj, 0)])

ExecAppend(n) ==
    /\ Ready(n, "append")
    /\ Go(n, [kernel[n] EXCEPT !.lists[Cur(n).obj] = @ + 1])

-----------------------------------------------------------------------------
\* for v in range(N): entered once per arrival from above.  for batch in
\* loader: a loader with num_workers > 0 starts its worker processes
ExecFor(n) ==
    /\ Ready(n, "for")
    /\ LET k == kernel[n]
           started == {l \in Cur(n).reads \cap DOMAIN k.loaders : k.loaders[l] > 0}
       IN  IF Min(Cur(n).n, MaxLoop) = 0
           THEN Commit(n, k, MatchEnd(P(n), k.pc) + 1, files)
           ELSE Go(n, [Bind(k, Cur(n).binds) EXCEPT !.ctr = Put(@, k.pc, 1),
                                                    !.procs = @ \cup started])

\* while not d:
ExecWhile(n) ==
    /\ Ready(n, "while")
    /\ LET k == kernel[n]
       IN  IF Cur(n).arg = "" \/ ~k.done[Cur(n).arg]
           THEN Go(n, k)
           ELSE Commit(n, k, MatchEnd(P(n), k.pc) + 1, files)

\* if d: break
ExecBreak(n) ==
    /\ Ready(n, "break")
    /\ LET k == kernel[n]
           j == MatchEnd(P(n), k.pc)
       IN  IF k.done[Cur(n).arg]
           THEN Commit(n, [k EXCEPT !.ctr = Drop(@, {LoopHead(P(n), j)})], j + 1, files)
           ELSE Go(n, k)

\* the end of a loop body
ExecEnd(n) ==
    /\ Ready(n, "end")
    /\ LET k == kernel[n]
           h == LoopHead(P(n), k.pc)
           head == P(n)[h]
       IN  IF head.op = "while" THEN Commit(n, k, h, files)
           ELSE IF k.ctr[h] < Min(head.n, MaxLoop)
           THEN Commit(n, [Bind(k, head.binds) EXCEPT !.ctr[h] = @ + 1], h + 1, files)
           ELSE Go(n, [k EXCEPT !.ctr = Drop(@, {h})])

ExecCall(n) ==
    /\ Ready(n, "call")
    /\ Go(n, [kernel[n] EXCEPT !.stack =
                 Append(@, [f |-> Cur(n).obj, locals |-> Cur(n).locals, trace |-> <<>>])])

\* return: the locals go, the result is bound
ExecRet(n) ==
    /\ Ready(n, "ret")
    /\ LET k == kernel[n]
           gone == k.stack[Len(k.stack)].locals
       IN  Go(n, Bind([k EXCEPT !.bound = @ \ gone, !.ref = Drop(@, gone),
                                !.graph = Drop(@, gone), !.envs = Drop(@, gone),
                                !.done = Drop(@, gone),
                                !.stack = SubSeq(@, 1, Len(@) - 1)],
                      Cur(n).binds))

\* some notebook of the directory executes its next statement
Next ==
    \/ \E n \in DOMAIN running : ExecStmt(n)
    \/ \E n \in DOMAIN running : ExecImport(n)
    \/ \E n \in DOMAIN running : ExecPip(n)
    \/ \E n \in DOMAIN running : RaiseSyntaxError(n)
    \/ \E n \in DOMAIN running : RaiseNameError(n)
    \/ \E n \in DOMAIN running : ExecMake(n)
    \/ \E n \in DOMAIN running : ExecWrap(n)
    \/ \E n \in DOMAIN running : ExecReset(n)
    \/ \E n \in DOMAIN running : ExecSample(n)
    \/ \E n \in DOMAIN running : ExecStep(n)
    \/ \E n \in DOMAIN running : ExecRender(n)
    \/ \E n \in DOMAIN running : ExecClose(n)
    \/ \E n \in DOMAIN running : ExecSetDone(n)
    \/ \E n \in DOMAIN running : ExecAgent(n)
    \/ \E n \in DOMAIN running : ExecLearn(n)
    \/ \E n \in DOMAIN running : ExecPredict(n)
    \/ \E n \in DOMAIN running : ExecSave(n)
    \/ \E n \in DOMAIN running : ExecLoad(n)
    \/ \E n \in DOMAIN running : ExecModule(n)
    \/ \E n \in DOMAIN running : ExecLeaf(n)
    \/ \E n \in DOMAIN running : ExecForward(n)
    \/ \E n \in DOMAIN running : ExecBackward(n)
    \/ \E n \in DOMAIN running : RaiseGraphFreed(n)
    \/ \E n \in DOMAIN running : ExecZeroGrad(n)
    \/ \E n \in DOMAIN running : ExecOptStep(n)
    \/ \E n \in DOMAIN running : ExecTorchSave(n)
    \/ \E n \in DOMAIN running : ExecTorchLoad(n)
    \/ \E n \in DOMAIN running : ExecLoader(n)
    \/ \E n \in DOMAIN running : ExecNewList(n)
    \/ \E n \in DOMAIN running : ExecAppend(n)
    \/ \E n \in DOMAIN running : ExecFor(n)
    \/ \E n \in DOMAIN running : ExecWhile(n)
    \/ \E n \in DOMAIN running : ExecBreak(n)
    \/ \E n \in DOMAIN running : ExecEnd(n)
    \/ \E n \in DOMAIN running : ExecCall(n)
    \/ \E n \in DOMAIN running : ExecRet(n)

\* one notebook run top to bottom in a fresh kernel and an empty directory
Init ==
    /\ \E n \in Notebooks :
         /\ running = [m \in {n} |-> Prog[m]]
         /\ kernel = [m \in {n} |-> FreshKernel]
    /\ files = <<>>
    /\ turn = NoOne
    /\ call = NoCall

Spec == Init /\ [][Next]_vars

\* two different notebooks run in one working directory
InitDir ==
    /\ \E a, b \in Notebooks :
         /\ a # b
         /\ running = [m \in {a, b} |-> Prog[m]]
         /\ kernel = [m \in {a, b} |-> FreshKernel]
    /\ files = <<>>
    /\ turn = NoOne
    /\ call = NoCall

SpecDir == InitDir /\ [][Next]_vars

-----------------------------------------------------------------------------
(***************************************************************************)
(* The notebooks with environments whose reset and step may raise.  No     *)
(* cell has a try statement: the exception ends the cell.                  *)
(***************************************************************************)
RaiseInReset(n) ==
    /\ Ready(n, "reset")
    /\ Abort(n, "EnvError")

RaiseInStep(n) ==
    /\ Ready(n, "step")
    /\ Abort(n, "EnvError")

NextFault ==
    \/ Next
    \/ \E n \in DOMAIN running : RaiseInReset(n)
    \/ \E n \in DOMAIN running : RaiseInStep(n)

SpecFault == Init /\ [][NextFault]_vars

-----------------------------------------------------------------------------
(***************************************************************************)
(* The reward functions of Gym-Reward_Functions.ipynb.                     *)
(*                                                                         *)
(* An observation of CartPole is <<cart position, cart velocity, pole     *)
(* angle, pole velocity>>: Python's next_state[0] is next_state[1] here    *)
(* and next_state[2] is next_state[3].  Angles are counted in hundredths   *)
(* of a radian, cart positions in units of 0.24 (a tenth of the 2.4 that   *)
(* angle_position_reward divides by).  The arithmetic is exact; the        *)
(* floating-point rounding of the notebook is not modelled.                *)
(***************************************************************************)
MaxAngle == 2
MaxPos == 1

\* the observations drawn (the velocities, which no reward function reads, are 0)
Obs == {<<x, 0, th, 0>> : x \in (-MaxPos)..MaxPos, th \in (-MaxAngle)..MaxAngle}
Actions == {0, 1}

abs(v) == IF v < 0 THEN -v ELSE v

\* (2 * 3.14159265), in units of 10^-8
TwoPi == 2 * 314159265

\* a variant that answers +1 when done and -1 otherwise
basic_reward_swapped(state, action, next_state, done) ==
    IF done THEN 1 ELSE -1

basic_reward(state, action, next_state, done) ==
    IF done THEN -1 ELSE 1

\* a variant that reads the cart position instead of the pole angle
angle_reward_of_position(state, action, next_state, done) ==
    LET pole_angle == abs(next_state[1])
    IN  IF done THEN -TwoPi ELSE TwoPi - pole_angle * 1000000

\* the value is the reward times TwoPi: -1 is -TwoPi, and
\* 1 - pole_angle / (2 * 3.14159265) is TwoPi - pole_angle, the angle of
\* pole_angle hundredths of a radian being pole_angle * 1000000 units of 10^-8
angle_reward(state, action, next_state, done) ==
    LET pole_angle == abs(next_state[3])
    IN  IF done THEN -TwoPi ELSE TwoPi - pole_angle * 1000000

\* a variant that rewards a cart far from the centre
angle_position_reward_off_centre(state, action, next_state, done) ==
    LET pole_angle == abs(next_state[3])
        cart_position == abs(next_state[1])
    IN  IF done THEN -(2 * TwoPi)
        ELSE 2 * TwoPi - (pole_angle * 1000000 - cart_position * (TwoPi \div 10))

\* the value is the reward times 2 * TwoPi: -1 is -(2 * TwoPi), and
\* 1 - (pole_angle / (2 * 3.14159265) + cart_position / 2.4) / 2 is
\* 2 * TwoPi - (pole_angle + cart_position * TwoPi / 10), the position of
\* cart_position units of 0.24 being cart_position / 10 times 2.4
angle_position_reward(state, action, next_state, done) ==
    LET pole_angle == abs(next_state[3])
        cart_position == abs(next_state[1])
    IN  IF done THEN -(2 * TwoPi)
        ELSE 2 * TwoPi - (pole_angle * 1000000 + cart_position * (TwoPi \div 10))

RewardFunctions == {"basic_reward", "angle_reward", "angle_position_reward"}

\* a call of a reward function that has not returned
NewCall(fn, state, action, next_state, done) ==
    [fn |-> fn, state |-> state, action |-> action, next_state |-> next_state,
     done |-> done, returned |-> FALSE, result |-> 0]

Pending(fn) == call.fn = fn /\ ~call.returned

Return(v) ==
    /\ call' = [call EXCEPT !.returned = TRUE, !.result = v]
    /\ UNCHANGED <<running, kernel, files, turn>>

Call_basic_reward ==
    /\ Pending("basic_reward")
    /\ Return(basic_reward(call.state, call.action, call.next_state, call.done))

Call_angle_reward ==
    /\ Pending("angle_reward")
    /\ Return(angle_reward(call.state, call.action, call.next_state, call.done))

Call_angle_position_reward ==
    /\ Pending("angle_position_reward")
    /\ Return(angle_position_reward(call.state, call.action, call.next_state, call.done))

\* one call of one reward function, on any arguments
InitReward ==
    /\ running = <<>>
    /\ kernel = <<>>
    /\ files = <<>>
    /\ turn = NoOne
    /\ \E fn \in RewardFunctions, state \in Obs, action \in Actions,
          next_state \in Obs, done \in BOOLEAN :
         call = NewCall(fn, state, action, next_state, done)

NextReward == Call_basic_reward \/ Call_angle_reward \/ Call_angle_position_reward

SpecReward == InitReward /\ [][NextReward]_vars

-----------------------------------------------------------------------------
(***************************************************************************)
(* The loss and feature functions of the torch notebooks.  A real number   *)
(* is a fraction [num, den] of integers, den > 0; the arithmetic is exact  *)
(* and the floating-point rounding of the notebooks is not modelled.       *)
(***************************************************************************)
MaxSamples == 3
MaxBatch == 2
MaxValue == 2
MaxLen == 2
AlphaSteps == 4

Frac(n, d) == [num |-> n, den |-> d]
FAdd(f, g) == Frac(f.num * g.den + g.num * f.den, f.den * g.den)
FSub(f, g) == Frac(f.num * g.den - g.num * f.den, f.den * g.den)
FMul(f, g) == Frac(f.num * g.num, f.den * g.den)
\* f / k for an integer k > 0
FDivInt(f, k) == Frac(f.num, f.den * k)
FEq(f, g) == f.num * g.den = g.num * f.den
FLe(f, g) == f.num * g.den <= g.num * f.den

RECURSIVE Sum(_)
\* the sum of a sequence of integers
Sum(s) == IF s = <<>> THEN 0 ELSE Head(s) + Sum(Tail(s))

\* the sequences over S of length 1..n
SeqsUpTo(S, n) == UNION {[1..l -> S] : l \in 1..n}

-----------------------------------------------------------------------------
(***************************************************************************)
(* Algorithms-SAC.ipynb, second notebook (NLL): def test(model, device,    *)
(* test_loader, loss_function).  A test sample is [loss, hit]: its         *)
(* negative log-likelihood under the model and whether the model's argmax  *)
(* is its target.                                                          *)
(***************************************************************************)
Samples == [loss : 0..MaxValue, hit : BOOLEAN]

RECURSIVE Batches(_, _)
\* DataLoader(dataset, batch_size=..., shuffle=False): the last batch holds
\* what is left
Batches(dataset, batch_size) ==
    IF Len(dataset) <= batch_size THEN << dataset >>
    ELSE << SubSeq(dataset, 1, batch_size) >>
         \o Batches(SubSeq(dataset, batch_size + 1, Len(dataset)), batch_size)

\* the losses of the samples, and 1 for every sample the model gets right
Losses(batch) == [i \in 1..Len(batch) |-> batch[i].loss]
Hits(batch) == [i \in 1..Len(batch) |-> IF batch[i].hit THEN 1 ELSE 0]

\* nn.NLLLoss(): reduction='mean', the mean of the losses of the batch
NLLLoss(batch) == Frac(Sum(Losses(batch)), Len(batch))

RECURSIVE NLL_test_loop(_, _, _)
\* for data, target in test_loader: test_loss += ...; correct += ...
NLL_test_loop(batches, test_loss, correct) ==
    IF batches = <<>> THEN [test_loss |-> test_loss, correct |-> correct]
    ELSE NLL_test_loop(Tail(batches),
                       FAdd(test_loss, NLLLoss(Head(batches))),
                       correct + Sum(Hits(Head(batches))))

\* what test prints
NLL_test(test_loader) ==
    LET acc == NLL_test_loop(Batches(test_loader.dataset, test_loader.batch_size),
                             Frac(0, 1), 0)
        n == Len(test_loader.dataset)
    IN  [test_loss |-> FDivInt(acc.test_loss, n),
         correct   |-> acc.correct,
         n         |-> n,
         accuracy  |-> Frac(100 * acc.correct, n)]

-----------------------------------------------------------------------------
(***************************************************************************)
(* Loss_Functions-Custom.ipynb: MeanAbsolutePercentageError.forward.  A    *)
(* tensor is a sequence of integers.  A float result is [kind, value]:     *)
(* a finite value, or inf or nan where an element is divided by zero.      *)
(***************************************************************************)
Values == (-MaxValue)..MaxValue
Tensors1D == SeqsUpTo(Values, MaxLen)

Finite(f) == [kind |-> "finite", value |-> f]
NotFinite(k) == [kind |-> k, value |-> Frac(0, 1)]

RECURSIVE FSum(_)
\* the sum of a sequence of fractions
FSum(s) == IF s = <<>> THEN Frac(0, 1) ELSE FAdd(Head(s), FSum(Tail(s)))

\* torch.mean of a tensor of floats
Mean(s) ==
    IF \E i \in DOMAIN s : s[i].kind = "nan" THEN NotFinite("nan")
    ELSE IF \E i \in DOMAIN s : s[i].kind = "inf" THEN NotFinite("inf")
    ELSE Finite(FDivInt(FSum([i \in DOMAIN s |-> s[i].value]), Len(s)))

\* a / b in floats
Div(a, b) ==
    IF b # 0 THEN Finite(IF b > 0 THEN Frac(a, b) ELSE Frac(-a, -b))
    ELSE IF a = 0 THEN NotFinite("nan") ELSE NotFinite("inf")

\* torch.abs of a float
Abs(x) == [x EXCEPT !.value = Frac(abs(@.num), @.den)]

\* x * k for an integer k > 0
Times(x, k) == [x EXCEPT !.value = Frac(@.num * k, @.den)]

\* a variant that leaves out torch.abs
MeanAbsolutePercentageError_forward_signed(y_pred, y_true) ==
    Times(Mean([i \in DOMAIN y_true |-> Div(y_true[i] - y_pred[i], y_true[i])]), 100)

\* return torch.mean(torch.abs((y_true - y_pred) / y_true)) * 100
MeanAbsolutePercentageError_forward(y_pred, y_true) ==
    Times(Mean([i \in DOMAIN y_true |-> Abs(Div(y_true[i] - y_pred[i], y_true[i]))]), 100)

-----------------------------------------------------------------------------
(***************************************************************************)
(* unnamed/part_003, first notebook: combined_loss.  The model has one     *)
(* regression output and one classification output per sample of the       *)
(* batch; the classification output of a sample is given by the negative   *)
(* log of the probability that its softmax gives to the target class.      *)
(***************************************************************************)
RegressionOutputs == {-1, 0, 2}
RegressionTargets == {0, 1}
NegLogLikelihoods == {0, 1, 3}

\* the values of alpha: below 0, the steps from 0 to 1, above 1
Alphas == {Frac(k, AlphaSteps) : k \in (-1)..(AlphaSteps + 1)}

\* nn.MSELoss(): the mean of the squared differences
mse_loss(output, targets) ==
    FDivInt(Frac(Sum([i \in DOMAIN output |->
                         (output[i] - targets[i]) * (output[i] - targets[i])]), 1),
            Len(output))

\* nn.CrossEntropyLoss(): the mean of the negative log-likelihoods of the targets
cross_entropy_loss(output, targets) == Frac(Sum(output), Len(output))

\* a variant that weighs the cross entropy with alpha
combined_loss_swapped(regression_output, classification_output, regression_targets, classification_targets, alpha) ==
    LET a == IF alpha = <<>> THEN Frac(1, 2) ELSE alpha[1]
        loss1 == mse_loss(regression_output, regression_targets)
        loss2 == cross_entropy_loss(classification_output, classification_targets)
    IN  FAdd(FMul(FSub(Frac(1, 1), a), loss1), FMul(a, loss2))

\* alpha is <<>> where the caller leaves it out (alpha=0.5), <<a>> otherwise
combined_loss(regression_output, classification_output, regression_targets, classification_targets, alpha) ==
    LET a == IF alpha = <<>> THEN Frac(1, 2) ELSE alpha[1]
        loss1 == mse_loss(regression_output, regression_targets)
        loss2 == cross_entropy_loss(classification_output, classification_targets)
    IN  FAdd(FMul(a, loss1), FMul(FSub(Frac(1, 1), a), loss2))

-----------------------------------------------------------------------------
(***************************************************************************)
(* PyTorch-Feature_Columns.ipynb: the bucketized area.                     *)
(***************************************************************************)
\* Columns: [Number_of_rooms, Area (sq.m), Price]
data ==
    << <<2, 50, 150000>>,
       <<3, 75, 210000>>,
       <<4, 90, 280000>>,
       <<2, 40, 120000>>,
       <<1, 30, 90000>>,
       <<5, 110, 330000>> >>

\* data[:, 1]
area_feature == [i \in DOMAIN data |-> data[i][2]]

\* boundaries=torch.tensor([50, 100])
boundaries == <<50, 100>>

\* the largest area of the three buckets
MaxArea == 150

\* the tensors bucketized: the notebook's, and every single area
AreaTensors == {area_feature} \cup {<<v>> : v \in 0..MaxArea}

\* a variant with right=True: a boundary value falls in the upper bucket
bucketize_right(input, bounds) ==
    [i \in DOMAIN input |-> Cardinality({j \in DOMAIN bounds : bounds[j] <= input[i]})]

\* torch.bucketize(input, boundaries), right=False: the bucket of v is the
\* first index i with v <= boundaries[i], the number of boundaries below v
bucketize(input, bounds) ==
    [i \in DOMAIN input |-> Cardinality({j \in DOMAIN bounds : bounds[j] < input[i]})]

-----------------------------------------------------------------------------
\* a call of one of the functions that has not returned
NewLossCall(fn, args) == [fn |-> fn, args |-> args, returned |-> FALSE]

ReturnLoss(v) ==
    /\ call' = [fn |-> call.fn, args |-> call.args, returned |-> TRUE, result |-> v]
    /\ UNCHANGED <<running, kernel, files, turn>>

Call_test ==
    /\ Pending("test")
    /\ ReturnLoss(NLL_test(call.args))

Call_MeanAbsolutePercentageError_forward ==
    /\ Pending("MeanAbsolutePercentageError.forward")
    /\ ReturnLoss(MeanAbsolutePercentageError_forward(call.args.y_pred, call.args.y_true))

Call_combined_loss ==
    /\ Pending("combined_loss")
    /\ ReturnLoss(combined_loss(call.args.regression_output,
                                call.args.classification_output,
                                call.args.regression_targets,
                                call.args.classification_targets,
                                call.args.alpha))

Call_bucketize ==
    /\ Pending("torch.bucketize")
    /\ ReturnLoss(bucketize(call.args.input, call.args.boundaries))

\* one call of one function, on any arguments
InitLoss ==
    /\ running = <<>>
    /\ kernel = <<>>
    /\ files = <<>>
    /\ turn = NoOne
    /\ \/ \E dataset \in SeqsUpTo(Samples, MaxSamples), batch_size \in 1..MaxBatch :
            call = NewLossCall("test", [dataset |-> dataset, batch_size |-> batch_size])
       \/ \E y_pred \in Tensors1D, y_true \in Tensors1D :
            /\ Len(y_pred) = Len(y_true)
            /\ call = NewLossCall("MeanAbsolutePercentageError.forward",
                                  [y_pred |-> y_pred, y_true |-> y_true])
       \/ \E n \in 1..MaxBatch :
            \E ro \in [1..n -> RegressionOutputs], co \in [1..n -> NegLogLikelihoods],
               rt \in [1..n -> RegressionTargets],
               alpha \in {<<>>} \cup {<<a>> : a \in Alphas} :
              call = NewLossCall("combined_loss",
                                 [regression_output |-> ro, classification_output |-> co,
                                  regression_targets |-> rt,
                                  classification_targets |-> [i \in 1..n |-> 0],
                                  alpha |-> alpha])
       \/ \E input \in AreaTensors :
            call = NewLossCall("torch.bucketize",
                               [input |-> input, boundaries |-> boundaries])

NextLoss ==
    \/ Call_test
    \/ Call_MeanAbsolutePercentageError_forward
    \/ Call_combined_loss
    \/ Call_bucketize

SpecLoss == InitLoss /\ [][NextLoss]_vars

-----------------------------------------------------------------------------
(***************************************************************************)
(* The properties.  Spec runs one notebook in a fresh kernel, SpecDir two  *)
(* notebooks in one working directory, SpecReward one call of a reward     *)
(* function.                                                               *)
(***************************************************************************)

\* C1, as stated: every notebook runs from top to bottom in a fresh kernel
\* without raising; in particular no cell reads a name that no earlier cell
\* or import has bound (no NameError) and every cell compiles.
C1_RunsWithoutRaising ==
    \A n \in DOMAIN kernel : kernel[n].raised = {}

\* C2, as stated: in every environment loop, no step is called on an
\* environment whose last step returned done=True before the notebook has
\* reset it.
C2_ResetBeforeNextStep ==
    \A n \in DOMAIN kernel : \A e \in DOMAIN kernel[n].envs :
        ~kernel[n].envs[e].late

\* C2, amended: every step is taken in an episode, and the only steps a
\* notebook takes after a done=True that it has not answered with a reset
\* are those of the test loop of Algorithms-DDPG.ipynb, on a vectorized
\* environment, which has reset itself.
C2_ResetBeforeNextStepExceptVec ==
    \A n \in DOMAIN kernel : \A e \in DOMAIN kernel[n].envs :
        LET env == kernel[n].envs[e]
        IN  /\ ~env.stale
            /\ env.late => (n = "Algorithms-DDPG.ipynb" /\ e = "env" /\ env.vec)

\* a notebook other than DDPG's has reset an environment after done=True and
\* stepped it again
C2_SteppedAfterReset ==
    \E n \in DOMAIN kernel : \E e \in DOMAIN kernel[n].envs :
        LET env == kernel[n].envs[e]
        IN  /\ n # "Algorithms-DDPG.ipynb"
            /\ env.dones >= 1 /\ env.resets >= 2
            /\ env.st = "ready" /\ env.t >= 1 /\ ~env.pending

\* C3: in every call of run_episode the environment calls are reset, then
\* sample and step in alternation; reset is called exactly once, before any
\* step; no call follows the step that returned done=True, and the function
\* returns only after such a step.
C3_RunEpisodeOrder ==
    \A n \in DOMAIN kernel : \A i \in 1..Len(kernel[n].stack) :
        LET fr == kernel[n].stack[i]
            tr == fr.trace
        IN  fr.f = "run_episode" =>
              /\ \A j \in 1..Len(tr) :
                   tr[j].op = (IF j = 1 THEN "reset"
                               ELSE IF j % 2 = 0 THEN "sample" ELSE "step")
              /\ \A j \in 1..(Len(tr) - 1) : ~tr[j].done
              /\ (i = Len(kernel[n].stack) /\ Cur(n).op = "ret")
                    => (Len(tr) >= 3 /\ tr[Len(tr)].done)

\* a call of run_episode is about to return after two steps
C3_EpisodeRun ==
    \E n \in DOMAIN kernel :
        LET st == kernel[n].stack
        IN  /\ st # <<>>
            /\ st[Len(st)].f = "run_episode"
            /\ Cur(n).op = "ret"
            /\ Len(st[Len(st)].trace) = 5
            /\ st[Len(st)].trace[5].done

\* C4: no agent is trained by more than one learn() call, an agent the
\* notebook has created has been trained by exactly one when the notebook
\* ends, an agent loaded from a checkpoint was saved after learn(), and no
\* predict() is called on an agent that is not trained.
C4_LearnOnceBeforePredict ==
    \A n \in DOMAIN kernel : \A o \in DOMAIN kernel[n].objs :
        LET a == kernel[n].objs[o]
        IN  a.kind = "agent" =>
              /\ a.learns <= 1
              /\ ~a.early
              /\ a.origin = "loaded" => a.trained
              /\ (Finished(n) /\ a.origin = "new") => a.learns = 1

\* a notebook has ended after predicting with the agent it trained and with
\* the agent it loaded
C4_TrainedAndLoadedPredict ==
    \E n \in DOMAIN kernel :
        /\ Finished(n)
        /\ \E o \in DOMAIN kernel[n].objs :
             LET a == kernel[n].objs[o]
             IN  a.kind = "agent" /\ a.origin = "new" /\ a.learns = 1 /\ a.predicted
        /\ \E o \in DOMAIN kernel[n].objs :
             LET a == kernel[n].objs[o]
             IN  a.kind = "agent" /\ a.origin = "loaded" /\ a.predicted

\* C5: every checkpoint path a notebook loads was saved under that path
\* earlier in the notebook: no load raises FileNotFoundError and the file of
\* every load is in the working directory.
C5_LoadAfterSave ==
    \A n \in DOMAIN kernel :
        /\ \A x \in kernel[n].raised : x.kind # "FileNotFoundError"
        /\ \A l \in kernel[n].loads : l.path \in DOMAIN files

\* a notebook has ended after loading a checkpoint
C5_Loaded ==
    \E n \in DOMAIN kernel :
        /\ Finished(n)
        /\ kernel[n].loads # {}
        /\ \A x \in kernel[n].raised : x.kind # "FileNotFoundError"

\* C6: when the cells of two notebooks interleave in one working directory,
\* every checkpoint a notebook loads was last written by that notebook.
C6_OwnCheckpoint ==
    \A n \in DOMAIN kernel : \A l \in kernel[n].loads : l.writer = n

\* the two notebooks that use the path ppo_cartpole have both loaded it
C6_BothLoaded ==
    \E a, b \in DOMAIN kernel :
        /\ a # b
        /\ [path |-> "ppo_cartpole", writer |-> a] \in kernel[a].loads
        /\ [path |-> "ppo_cartpole", writer |-> b] \in kernel[b].loads

\* C7: the gradient of a module never holds more than one backward() pass,
\* and every optimizer.step() applies the gradient of exactly one.
C7_OneBackwardPerStep ==
    \A n \in DOMAIN kernel : \A o \in DOMAIN kernel[n].objs :
        LET m == kernel[n].objs[o]
        IN  m.kind = "module" => (m.grad <= 1 /\ m.applied \in {-1, 1})

\* a training loop has made its second optimizer.step()
C7_SecondStep ==
    \E n \in DOMAIN kernel : \E o \in DOMAIN kernel[n].objs :
        LET m == kernel[n].objs[o]
        IN  m.kind = "module" /\ m.steps >= 2 /\ m.applied = 1 /\ m.grad = 1

\* C8, as stated: in PyTorch-Autograd.ipynb the second
\* z.backward(retain_graph=True) does not raise; after it x.grad and y.grad
\* hold twice the gradient of the first call (24 and 8), and after the cell
\* the zero_() calls have reset them.
C8_SecondBackwardAccumulates ==
    \A n \in DOMAIN kernel : n = "PyTorch-Autograd.ipynb" =>
        LET k == kernel[n]
            x == k.objs[k.ref["x"]]
            y == k.objs[k.ref["y"]]
        IN  /\ \A r \in k.raised : r.kind # "RuntimeError"
            /\ (~Finished(n) /\ Cur(n).cell = 76 /\ Cur(n).op = "stmt")
                  => (x.grad = 24 /\ y.grad = 8)
            /\ (~Finished(n) /\ Cur(n).cell = 97) => (x.grad = 0 /\ y.grad = 0)

\* C9: basic_reward returns -1 when done and +1 otherwise.
C9_BasicReward ==
    (call.fn = "basic_reward" /\ call.returned)
        => /\ call.done => call.result = -1
           /\ ~call.done => call.result = 1

\* basic_reward has returned from a call with done=True
C9_ReturnedDone ==
    call.fn = "basic_reward" /\ call.returned /\ call.done /\ call.result = -1

\* C10, as stated: for every state, action and done flag, angle_reward gives
\* a next state of smaller |pole angle| a strictly higher reward.
C10_SmallerAngleHigherReward ==
    (call.fn = "angle_reward" /\ call.returned) =>
        \A other \in Obs :
            abs(other[3]) < abs(call.next_state[3])
                => angle_reward(call.state, call.action, other, call.done) > call.result

\* C10, amended: when done is False, angle_reward gives a next state of
\* smaller |pole angle| a strictly higher reward; when done is True the
\* reward is -1, whatever the angle.
C10_SmallerAngleHigherRewardNotDone ==
    (call.fn = "angle_reward" /\ call.returned) =>
        /\ call.done => call.result = -TwoPi
        /\ ~call.done =>
             \A other \in Obs :
                 abs(other[3]) < abs(call.next_state[3])
                     => angle_reward(call.state, call.action, other, FALSE) > call.result

\* angle_reward has returned from a call with done=False on a pole that is
\* not upright
C10_ReturnedTilted ==
    /\ call.fn = "angle_reward" /\ call.returned /\ ~call.done
    /\ \E other \in Obs : abs(other[3]) < abs(call.next_state[3])

\* C11, as stated: angle_position_reward gives a strictly higher reward to a
\* next state of smaller |pole angle| and the same |cart position|, and to
\* one of smaller |cart position| and the same |pole angle|.
C11_CloserHigherReward ==
    (call.fn = "angle_position_reward" /\ call.returned) =>
        \A other \in Obs :
            (\/ /\ abs(other[3]) < abs(call.next_state[3])
                /\ abs(other[1]) = abs(call.next_state[1])
             \/ /\ abs(other[1]) < abs(call.next_state[1])
                /\ abs(other[3]) = abs(call.next_state[3]))
                => angle_position_reward(call.state, call.action, other, call.done)
                       > call.result

\* C11, amended: when done is False, angle_position_reward gives a strictly
\* higher reward to a next state of smaller |pole angle| and the same
\* |cart position|, and to one of smaller |cart position| and the same
\* |pole angle|; when done is True the reward is -1, whatever the state.
C11_CloserHigherRewardNotDone ==
    (call.fn = "angle_position_reward" /\ call.returned) =>
        /\ call.done => call.result = -(2 * TwoPi)
        /\ ~call.done =>
             \A other \in Obs :
                 (\/ /\ abs(other[3]) < abs(call.next_state[3])
                     /\ abs(other[1]) = abs(call.next_state[1])
                  \/ /\ abs(other[1]) < abs(call.next_state[1])
                     /\ abs(other[3]) = abs(call.next_state[3]))
                     => angle_position_reward(call.state, call.action, other, FALSE)
                            > call.result

\* angle_position_reward has returned from a call with done=False on a
\* tilted pole and a cart off the centre
C11_ReturnedTiltedOffCentre ==
    /\ call.fn = "angle_position_reward" /\ call.returned /\ ~call.done
    /\ abs(call.next_state[3]) > 0
    /\ abs(call.next_state[1]) > 0

\* C12, as stated: the 'Average loss' that test reports is the mean
\* per-sample negative log-likelihood over the test set: the sum of the
\* losses of all test samples divided by their number.
C12_AverageLossIsSampleMean ==
    (call.fn = "test" /\ call.returned) =>
        FEq(call.result.test_loss,
            Frac(Sum(Losses(call.args.dataset)), Len(call.args.dataset)))

\* C13: for targets that hold no zero, MeanAbsolutePercentageError.forward
\* returns 100 times the mean over the elements of |y_true - y_pred| /
\* |y_true|; the value is not negative, and it is 0 exactly when y_pred
\* equals y_true element by element.
C13_MAPE ==
    (/\ call.fn = "MeanAbsolutePercentageError.forward" /\ call.returned
     /\ \A i \in DOMAIN call.args.y_true : call.args.y_true[i] # 0) =>
        LET p == call.args.y_pred
            t == call.args.y_true
            n == Len(t)
            v == call.result.value
            \* |t[i] - p[i]| / |t[i]| = part[i] / 4, since every |t[i]| divides 12
            part == [i \in 1..n |-> (abs(t[i] - p[i]) * 12) \div abs(t[i])]
        IN  /\ call.result.kind = "finite"
            /\ \A i \in 1..n : 12 % abs(t[i]) = 0
            /\ FEq(v, Frac(100 * Sum(part), 12 * n))
            /\ FLe(Frac(0, 1), v)
            /\ FEq(v, Frac(0, 1)) <=> (p = t)

\* forward has returned on two predictions that differ from their targets,
\* none of them zero
C13_MAPEOfWrongPredictions ==
    /\ call.fn = "MeanAbsolutePercentageError.forward" /\ call.returned
    /\ Len(call.args.y_true) = 2
    /\ \A i \in 1..2 : call.args.y_true[i] # 0 /\ call.args.y_pred[i] # call.args.y_true[i]
    /\ call.result.kind = "finite" /\ call.result.value.num > 0

\* C14: combined_loss returns alpha * MSE + (1 - alpha) * CrossEntropy, with
\* alpha = 0.5 where the caller gives none; for every alpha in [0, 1] the
\* result lies between the two losses, alpha = 1 gives the MSE loss alone
\* and alpha = 0 the cross-entropy loss alone.
C14_CombinedLoss ==
    (call.fn = "combined_loss" /\ call.returned) =>
        LET mse == mse_loss(call.args.regression_output, call.args.regression_targets)
            ce == cross_entropy_loss(call.args.classification_output,
                                     call.args.classification_targets)
            v == call.result
            a == IF call.args.alpha = <<>> THEN Frac(1, 2) ELSE call.args.alpha[1]
        IN  /\ v.num * (a.den * mse.den * ce.den)
                  = v.den * (a.num * mse.num * ce.den + (a.den - a.num) * ce.num * mse.den)
            /\ call.args.alpha = <<>> => FEq(FAdd(v, v), FAdd(mse, ce))
            /\ (FLe(Frac(0, 1), a) /\ FLe(a, Frac(1, 1))) =>
                  /\ FLe(mse, v) \/ FLe(ce, v)
                  /\ FLe(v, mse) \/ FLe(v, ce)
            /\ FEq(a, Frac(1, 1)) => FEq(v, mse)
            /\ FEq(a, Frac(0, 1)) => FEq(v, ce)

\* combined_loss has returned a value strictly between two different losses
C14_StrictlyBetween ==
    /\ call.fn = "combined_loss" /\ call.returned /\ call.args.alpha # <<>>
    /\ LET mse == mse_loss(call.args.regression_output, call.args.regression_targets)
           ce == cross_entropy_loss(call.args.classification_output,
                                    call.args.classification_targets)
           v == call.result
       IN  /\ ~FLe(v, mse) /\ ~FLe(ce, v)
           /\ ~FLe(call.args.alpha[1], Frac(0, 1))
           /\ ~FLe(Frac(1, 1), call.args.alpha[1])

\* C15: bucketizing the area with the boundaries [50, 100] gives bucket 0 to
\* the areas 0..50, bucket 1 to the areas 51..100 and bucket 2 to the areas
\* 101..150: the boundary values 50 and 100 fall in the lower bucket.
C15_Buckets ==
    (call.fn = "torch.bucketize" /\ call.returned) =>
        \A i \in DOMAIN call.args.input :
            LET v == call.args.input[i]
                b == call.result[i]
            IN  /\ v \in 0..50 => b = 0
                /\ v \in 51..100 => b = 1
                /\ v \in 101..150 => b = 2

\* the boundary value 100 has been put in bucket 1
C15_BoundaryBucketized ==
    /\ call.fn = "torch.bucketize" /\ call.returned
    /\ call.args.input = <<100>>
    /\ call.result = <<1>>

\* C16, as stated: a package that a cell of the notebook installs with pip
\* has been installed whenever the notebook has imported it: the install
\* cell comes before the first cell that imports the package.
C16_InstallBeforeImport ==
    \A n \in DOMAIN kernel :
        \A i \in DOMAIN P(n) :
            P(n)[i].op = "pip" =>
                \A pkg \in P(n)[i].pkgs :
                    ModuleOf(pkg) \in kernel[n].imported => pkg \in kernel[n].installed

\* C17: every statement of a notebook runs in the one execution context of
\* its kernel: no notebook starts worker processes, although data loaders
\* with num_workers=4 are built.
C17_NoWorkerProcess ==
    \A n \in DOMAIN kernel : kernel[n].procs = {}

\* a notebook has ended after building a data loader with num_workers=4
C17_LoadersBuilt ==
    \E n \in DOMAIN kernel :
        /\ Finished(n)
        /\ \E l \in DOMAIN kernel[n].loaders : kernel[n].loaders[l] = 4
        /\ kernel[n].procs = {}

\* C18: no notebook catches exceptions.  When env.reset or env.step raises
\* in a cell, the cell is aborted at that call.  When this happens in the
\* random-agent loop of Gym-Environments.ipynb, episode_rewards holds one
\* total for each episode that had been completed, none for the episode in
\* progress, and average_reward is not assigned.
C18_AbortedLoopKeepsCompletedEpisodes ==
    \A n \in DOMAIN kernel :
        /\ \A r \in kernel[n].raised :
               r.kind = "EnvError" => Finished(n) \/ Cur(n).cell > r.cell
        /\ (/\ n = "Gym-Environments.ipynb"
            /\ [cell |-> 119, kind |-> "EnvError"] \in kernel[n].raised)
           => /\ "average_reward" \notin kernel[n].bound
              /\ "episode_rewards" \in DOMAIN kernel[n].lists
              /\ kernel[n].lists["episode_rewards"] = kernel[n].envs["env"].dones

\* env.step has raised in the second episode of the random-agent loop: the
\* total of the first episode is in episode_rewards
C18_RaisedInSecondEpisode ==
    \E n \in DOMAIN kernel :
        /\ n = "Gym-Environments.ipynb"
        /\ [cell |-> 119, kind |-> "EnvError"] \in kernel[n].raised
        /\ kernel[n].envs["env"].resets = 3
        /\ kernel[n].envs["env"].t >= 1
        /\ kernel[n].lists["episode_rewards"] = 1

=============================================================================
